---- MODULE Spec2Model ----
(***************************************************************************)
(* Model of the AI-Employee polling orchestration and file-based approval  *)
(* workflow: the vault (one directory per stage), the audit log, the       *)
(* gmail-send tool server, the LinkedIn poster job, the orchestrator's     *)
(* scheduler and health monitor, and the three watcher variants.           *)
(*                                                                         *)
(* The specifications share the variables:                                 *)
(*   Spec        the approval workflow (tool server, human, LinkedIn job)  *)
(*   SpecOrch    the orchestrator (scheduler, filesystem thread, monitor)  *)
(*   SpecDetect  the watchers' check_for_updates / create_action_file API  *)
(*   SpecRun     the watchers' run loops                                   *)
(*   SpecStatus  the status aggregator                                     *)
(*   SpecConfig  the Gmail job under every token / credentials state       *)
(*   SpecLog     concurrent log_action calls, statement by statement       *)
(*   SpecRestart the supervised filesystem watcher (SpecRestartFair: with  *)
(*               fair scheduling of its threads)                           *)
(*   SpecMark    GmailWatcher.create_action_file, statement by statement   *)
(*   SpecApproved files of every kind in Approved under the LinkedIn job   *)
(*   SpecJobs    the scheduled Gmail and LinkedIn jobs and their failures  *)
(*   SpecStop    a standalone run loop stopped by the user                 *)
(***************************************************************************)
EXTENDS Integers, Sequences, FiniteSets, TLC

VARIABLES
    vault,        \* directory name -> (file name -> file content)
    log,          \* the audit log: sequence of entries, in append order
    now,          \* the wall clock, in whole seconds
    liPc,         \* position of the one in-flight _run_linkedin_check_once
    liItems,      \* items of the in-flight LinkedIn batch not yet processed
    liSnapshot,   \* the files found in the scanned directory when the cycle began
    postLog,      \* history of _post_to_linkedin invocations
    created,      \* LinkedIn request names already created by the requester
    toolCalls,    \* number of send_email tool invocations
    toolRet,      \* path returned by the last send_email invocation
    sent,         \* outbound emails actually sent (request ids)
    inflight,     \* scheduler: job -> number of running invocations
    hung,         \* scheduler: job -> number of invocations that never return
    skipped,      \* scheduler: job -> a trigger was skipped (instance limit)
    fsThreads,    \* the filesystem WatcherThreads that are alive (by number)
    fsPc,         \* the filesystem watcher loop: "poll" or "sleep"
    fsGen,        \* number of filesystem WatcherThreads started so far
    fsArgs,       \* args of the current filesystem WatcherThread
    fsException,  \* WatcherThread._exception is set on the current thread
    orch,         \* orchestrator main thread: "monitor", "stopped", "crashed"
    pending_files,   \* FileSystemWatcher.pending_files (queue of names)
    processed_files, \* FileSystemWatcher.processed_files
    dropFolder,      \* names of the files present in Drop_Folder
    mailbox,         \* message id -> TRUE when the message carries UNREAD
    processed_ids,   \* GmailWatcher.processed_ids
    gmailUp,         \* the Gmail API answers (FALSE: list/get raise)
    lastRes,         \* watcher -> result of its last check_for_updates
    prevRes,         \* watcher -> result of the check_for_updates before it
    variant,         \* the watcher variant whose contract is exercised
    twice,           \* watcher -> "twice" when its last two calls were both
                     \*   check_for_updates with no create_action_file and no
                     \*   change of its source between them ("once", "none")
    loopPc,       \* the watcher's run loop: "check", "batch", "sleep", "dead"
    loopItems,    \* items of the run loop's batch not yet materialized
    lastCall,     \* the last create_action_file of the loop: <<key, how it ended>>
    cycles,       \* number of poll cycles begun by the run loop and the Gmail job
    exited,       \* the orchestrator process has ended
    dashboard,    \* Dashboard.md: folder name -> the count it shows
    instGen,      \* number of the WatcherThread whose FileSystemWatcher instance
                  \*   pending_files and processed_files belong to
    gmailConfig,  \* the Gmail watcher's token file and credentials file
    writers,      \* component -> its log_action call in progress
    logFiles      \* Logs/<day>.json: day -> the entries, in file order

vars == <<vault, log, now, liPc, liItems, liSnapshot, postLog,
          created, toolCalls, toolRet, sent, inflight, hung, skipped,
          fsThreads, fsPc, fsGen, fsArgs, fsException, orch,
          pending_files, processed_files, dropFolder, mailbox, processed_ids,
          gmailUp, lastRes, prevRes, variant, twice,
          loopPc, loopItems, lastCall, cycles, exited, dashboard,
          instGen, gmailConfig, writers, logFiles>>

wfVars == <<vault, log, now, liPc, liItems, liSnapshot, postLog,
            created, toolCalls, toolRet, sent>>
orchVars == <<inflight, hung, skipped, fsThreads, fsPc, fsGen, fsArgs,
              fsException, orch>>
detVars == <<pending_files, processed_files, dropFolder, mailbox,
             processed_ids, gmailUp, lastRes, prevRes, variant, twice>>
loopVars == <<loopPc, loopItems, lastCall, cycles>>
auxVars == <<instGen, gmailConfig, writers, logFiles>>
runVars == <<loopVars, exited, dashboard, auxVars>>

\* fs_thread.is_alive(): main's variable fs_thread is the thread started last.
fsAlive == fsGen \in fsThreads

----------------------------------------------------------------------------
(* Bounds of the model *)

MaxClock == 1
MaxPostCalls == 2
MaxToolCalls == 2
MaxWorkflowCalls == 1

----------------------------------------------------------------------------
(* The vault: store layout and records *)

\* The watcher variants: FileSystemWatcher, GmailWatcher, LinkedInPoster.
Watchers == {"drop_folder", "inbox", "approval_queue"}

Dirs == {"Needs_Action", "Pending_Approval", "Approved", "Rejected", "Done"}

EmptyDir == [n \in {} |-> TRUE]

EmptyVault == [d \in Dirs |-> EmptyDir]

\* A file name is a tuple: <<prefix, id>> for a request record and
\* <<prefix, id, status, timestamp>> for an archived one.
LinkedInNames == {<<"LINKEDIN", 1>>, <<"LINKEDIN", 2>>}

EmailSendNames == {<<"EMAIL_SEND", t>> : t \in 0..MaxClock}

Exists(v, d, n) == n \in DOMAIN v[d]

\* Path.write_text / shutil.move onto a path: an existing file is replaced.
WriteFile(v, d, n, c) ==
    [v EXCEPT ![d] = [m \in DOMAIN v[d] \cup {n} |-> IF m = n THEN c ELSE v[d][m]]]

RemoveFile(v, d, n) ==
    [v EXCEPT ![d] = [m \in DOMAIN v[d] \ {n} |-> v[d][m]]]

MoveFile(v, from, n, to, m) ==
    WriteFile(RemoveFile(v, from, n), to, m, v[from][n])

\* One line of the JSON-lines audit log.
LogEntry(ts, action_type, actor, details, result) ==
    [timestamp |-> ts, action_type |-> action_type, actor |-> actor,
     details |-> details, result |-> result]

----------------------------------------------------------------------------
(* File contents.  A record file is a frontmatter block (type, status) and   *)
(* one "## <heading>" section with its text; req identifies the tool call    *)
(* that wrote an email_send request (0 otherwise).                           *)

Content(type, status, heading, text, req) ==
    [type |-> type, status |-> status, heading |-> heading, text |-> text,
     req |-> req]

\* What a requester may put into a LinkedIn request file: a post, a post
\* with an empty body section, a file of another type.
PostTemplates ==
    { Content("linkedin_post", "pending", "## post content", "hello", 0),
      Content("linkedin_post", "pending", "## post content", "", 0),
      Content("note", "pending", "## post content", "hello", 0) }

\* linkedin_watcher._parse_frontmatter: the key-value block of the header.
parse_frontmatter(c) == [type |-> c.type, status |-> c.status]

BodyHeadings == {"## post content", "## content", "## post body"}

\* linkedin_watcher._extract_post_body: the text under the first body
\* heading, stripped; empty when there is no such heading.
extract_post_body(c) == IF c.heading \in BodyHeadings THEN c.text ELSE ""

----------------------------------------------------------------------------
(* gmail_send tool server *)

\* server._create_approval_request: the directory the request is written to.
ApprovalDir == "Pending_Approval"

\* server._create_approval_request: EMAIL_SEND_<%Y%m%d_%H%M%S>.
ApprovalFileId(ts) == <<"EMAIL_SEND", ts>>

\* server._create_approval_request: the frontmatter and body it writes.
ApprovalContent(req) == Content("email_send", "pending", "## body", "hello", req)

\* A send_email branch that also sends the message at once.
SendEmailOutbound_at_once(s, req) == s \cup {req}

\* server.call_tool, send_email branch: what it adds to the outbound mail.
\* The branch only calls _create_approval_request; nothing is sent.
SendEmailOutbound(s, req) == s

\* server.call_tool(name = "send_email"): one tool invocation.
call_tool_send_email ==
    /\ toolCalls < MaxToolCalls
    /\ LET req  == toolCalls + 1
           name == ApprovalFileId(now)
       IN /\ vault' = WriteFile(vault, ApprovalDir, name, ApprovalContent(req))
          /\ log' = Append(log, LogEntry(now, "approval_created", "GmailSendMCP",
                                         name, "success"))
          /\ toolRet' = <<ApprovalDir, name>>
          /\ sent' = SendEmailOutbound(sent, req)
          /\ toolCalls' = req
    /\ UNCHANGED <<now, liPc, liItems, liSnapshot, postLog, created>>
    /\ UNCHANGED <<orchVars, detVars, runVars>>

----------------------------------------------------------------------------
(* The environment of the approval workflow: the requester that writes a    *)
(* LinkedIn request into Pending_Approval, the human approver, the clock.   *)

RequestLinkedInPost(n, c) ==
    /\ n \in LinkedInNames \ created
    /\ c \in PostTemplates
    /\ vault' = WriteFile(vault, "Pending_Approval", n, c)
    /\ created' = created \cup {n}
    /\ UNCHANGED <<log, now, liPc, liItems, liSnapshot, postLog,
                   toolCalls, toolRet, sent>>
    /\ UNCHANGED <<orchVars, detVars, runVars>>

HumanMove(n, to) ==
    /\ Exists(vault, "Pending_Approval", n)
    /\ vault' = MoveFile(vault, "Pending_Approval", n, to, n)
    /\ twice' = IF to = "Approved"
                THEN [twice EXCEPT !["approval_queue"] = "none"]
                ELSE twice
    /\ prevRes' = IF to = "Approved"
                  THEN [prevRes EXCEPT !["approval_queue"] = <<>>]
                  ELSE prevRes
    /\ UNCHANGED <<log, now, liPc, liItems, liSnapshot, postLog,
                   created, toolCalls, toolRet, sent>>
    /\ UNCHANGED <<pending_files, processed_files, dropFolder, mailbox,
                   processed_ids, gmailUp, lastRes>>
    /\ UNCHANGED <<orchVars, runVars>>
    /\ UNCHANGED variant

HumanApprove(n) == HumanMove(n, "Approved")

HumanReject(n) == HumanMove(n, "Rejected")

Tick ==
    /\ now < MaxClock
    /\ now' = now + 1
    /\ UNCHANGED <<vault, log, liPc, liItems, liSnapshot, postLog,
                   created, toolCalls, toolRet, sent>>
    /\ UNCHANGED <<orchVars, detVars, runVars>>

----------------------------------------------------------------------------
(* LinkedIn poster: linkedin_watcher.LinkedInPoster, run by the scheduler   *)
(* through orchestrator._run_linkedin_check_once.                           *)

\* A poster that scans the pending directory instead of the approved one.
approved_dir_pending == "Pending_Approval"

\* LinkedInPoster.approved_dir: the directory check_for_updates scans.
approved_dir == "Approved"

\* A poster that archives into the pending directory.
done_dir_pending == "Pending_Approval"

\* LinkedInPoster.done_dir
done_dir == "Done"

\* glob("LINKEDIN_*.md")
MatchesLinkedInGlob(n) == n[1] = "LINKEDIN" /\ Len(n) = 2

\* sorted(...): request names of one prefix sort by their id.
RECURSIVE SortedNames(_)
SortedNames(S) ==
    IF S = {} THEN <<>>
    ELSE LET m == CHOOSE x \in S : \A y \in S : x[2] <= y[2]
         IN <<m>> \o SortedNames(S \ {m})

\* A check_for_updates that takes every LINKEDIN_*.md file, whatever its
\* frontmatter says.
LinkedInPoster_check_for_updates_unfiltered(v) ==
    LET names == SortedNames({ n \in DOMAIN v[approved_dir] : MatchesLinkedInGlob(n) })
    IN [i \in 1..Len(names) |-> <<approved_dir, names[i]>>]

\* LinkedInPoster.check_for_updates: the paths of the pending posts.
LinkedInPoster_check_for_updates(v) ==
    LET hits == { n \in DOMAIN v[approved_dir] :
                    /\ MatchesLinkedInGlob(n)
                    /\ parse_frontmatter(v[approved_dir][n]).type = "linkedin_post"
                    /\ parse_frontmatter(v[approved_dir][n]).status # "posted" }
        names == SortedNames(hits)
    IN [i \in 1..Len(names) |-> <<approved_dir, names[i]>>]

\* LinkedInPoster._archive: the name of the archived file in Done.
ArchiveName(n, status, ts) == <<n[1], n[2], status, ts>>

\* LinkedInPoster._archive: shutil.move(source, done_dir / dest_name).
archive(v, item, status, ts) ==
    MoveFile(v, item[1], item[2], done_dir, ArchiveName(item[2], status, ts))

\* The ways one call of _post_to_linkedin can end:
\*   "launch_raised" sync_playwright(), launch_persistent_context or
\*                   new_page raise, outside the inner try: the exception
\*                   leaves _post_to_linkedin
\*   "failed"        playwright is missing, the login fails or the inner
\*                   try catches an exception: returns False
\*   "posted"        the Post button was clicked: returns True
PostOutcomes == {"launch_raised", "failed", "posted"}

\* LinkedInPoster.create_action_file(item), as the values it leaves behind;
\* raised tells whether an exception left the call.
\*   outcome    how _post_to_linkedin ends, when it is called
\*   moveOk     whether shutil.move in _archive succeeds
create_action_file_result(item, outcome, moveOk) ==
    LET c     == vault[item[1]][item[2]]
        body  == extract_post_body(c)
        call  == [name |-> item[2], dir |-> item[1], outcome |-> outcome]
        state(v, l, p, r) == [vault |-> v, log |-> l, postLog |-> p, raised |-> r]
    IN IF body = ""
       THEN IF moveOk
            THEN state(archive(vault, item, "skipped_empty_body", now), log, postLog, FALSE)
            ELSE state(vault, log, postLog, TRUE)
       ELSE IF outcome = "launch_raised"
       THEN state(vault, log, Append(postLog, call), TRUE)
       ELSE IF ~moveOk
       THEN state(vault, log, Append(postLog, call), TRUE)
       ELSE IF outcome = "posted"
       THEN state(archive(vault, item, "posted", now),
                  Append(log, LogEntry(now, "linkedin_post", "LinkedInPoster",
                                       <<"Posted", item[2]>>, "success")),
                  Append(postLog, call), FALSE)
       ELSE state(archive(vault, item, "post_failed", now),
                  Append(log, LogEntry(now, "linkedin_post", "LinkedInPoster",
                                       <<"Failed", item[2]>>, "error")),
                  Append(postLog, call), FALSE)

\* The scheduler starts _run_linkedin_check_once (max_instances=1: only when
\* no invocation is in flight); the poster is built and check_for_updates runs.
run_linkedin_check_once_start ==
    /\ liPc = "idle"
    /\ liItems' = LinkedInPoster_check_for_updates(vault)
    /\ liSnapshot' = vault[approved_dir]
    /\ liPc' = "loop"
    /\ UNCHANGED <<vault, log, now, postLog, created, toolCalls, toolRet, sent>>
    /\ UNCHANGED <<orchVars, detVars, runVars>>

\* One turn of `for item in items: poster.create_action_file(item)`; an
\* exception leaves the loop and is caught by the job's except clause.
run_linkedin_check_once_item ==
    /\ liPc = "loop"
    /\ liItems # <<>>
    /\ Len(postLog) < MaxPostCalls
    /\ \E outcome \in PostOutcomes, moveOk \in BOOLEAN :
         LET r == create_action_file_result(Head(liItems), outcome, moveOk)
         IN /\ vault' = r.vault
            /\ log' = r.log
            /\ postLog' = r.postLog
            /\ IF r.raised
               THEN liPc' = "idle" /\ liItems' = <<>> /\ liSnapshot' = EmptyDir
               ELSE liPc' = "loop" /\ liItems' = Tail(liItems) /\ UNCHANGED liSnapshot
    /\ UNCHANGED <<now, created, toolCalls, toolRet, sent>>
    /\ UNCHANGED <<orchVars, detVars, runVars>>

\* The loop is over: the job function returns.
run_linkedin_check_once_end ==
    /\ liPc = "loop"
    /\ liItems = <<>>
    /\ liPc' = "idle"
    /\ liSnapshot' = EmptyDir
    /\ UNCHANGED <<vault, log, now, liItems, postLog,
                   created, toolCalls, toolRet, sent>>
    /\ UNCHANGED <<orchVars, detVars, runVars>>

----------------------------------------------------------------------------
(* Orchestrator: the scheduler's three interval jobs, the filesystem        *)
(* WatcherThread and the health-monitor loop of orchestrator.main.          *)

Jobs == {"gmail_watcher", "linkedin_poster", "dashboard_update"}

\* scheduler.add_job(..., max_instances=1)
MaxInstances == 1

MaxRestarts == 2

\* WatcherThread(args=(str(vault_path), drop_folder, 10))
FsThreadArgs == <<"vault_path", "drop_folder", 10>>

\* A scheduler without the instance limit.
CanStart_unlimited(j) == TRUE

\* A scheduler whose jobs share one worker.
CanStart_one_worker(j) == \A k \in Jobs : inflight[k] = 0

\* Whether the scheduler may start an invocation of job j when its interval
\* trigger fires: the job's own running instances are below max_instances.
\* BackgroundScheduler() runs each instance on a worker thread of its own.
CanStart(j) == inflight[j] < MaxInstances

\* The interval trigger of job j fires and an invocation starts.
JobStart(j) ==
    /\ orch = "monitor"
    /\ CanStart(j)
    /\ inflight' = [inflight EXCEPT ![j] = @ + 1]
    /\ UNCHANGED <<hung, skipped, fsThreads, fsPc, fsGen, fsArgs, fsException, orch>>
    /\ UNCHANGED <<wfVars, detVars, runVars>>

\* The interval trigger of job j fires at the instance limit: the run is
\* skipped, no invocation starts.
JobSkip(j) ==
    /\ orch = "monitor"
    /\ ~CanStart(j)
    /\ skipped' = [skipped EXCEPT ![j] = TRUE]
    /\ UNCHANGED <<inflight, hung, fsThreads, fsPc, fsGen, fsArgs, fsException, orch>>
    /\ UNCHANGED <<wfVars, detVars, runVars>>

\* An invocation of job j returns (the job functions catch what they raise).
JobReturn(j) ==
    /\ orch = "monitor"
    /\ inflight[j] > hung[j]
    /\ inflight' = [inflight EXCEPT ![j] = @ - 1]
    /\ UNCHANGED <<hung, skipped, fsThreads, fsPc, fsGen, fsArgs, fsException, orch>>
    /\ UNCHANGED <<wfVars, detVars, runVars>>

\* An invocation of job j blocks in an external call and never returns.
JobHang(j) ==
    /\ orch = "monitor"
    /\ inflight[j] > hung[j]
    /\ hung' = [hung EXCEPT ![j] = @ + 1]
    /\ UNCHANGED <<inflight, skipped, fsThreads, fsPc, fsGen, fsArgs, fsException, orch>>
    /\ UNCHANGED <<wfVars, detVars, runVars>>

\* FileSystemWatcher.run inside the WatcherThread: one turn of the loop,
\* check_for_updates and the batch, then time.sleep(check_interval).
FsLoopStep ==
    /\ orch = "monitor"
    /\ fsAlive
    /\ fsPc' = IF fsPc = "sleep" THEN "poll" ELSE "sleep"
    /\ UNCHANGED <<inflight, hung, skipped, fsThreads, fsGen, fsArgs, fsException, orch>>
    /\ UNCHANGED <<wfVars, detVars, runVars>>

\* WatcherThread.run: the target raises while the watcher is constructed or
\* running; an Exception is caught and kept in _exception, and the thread
\* ends either way.
FsCrash(isException) ==
    /\ orch = "monitor"
    /\ fsAlive
    /\ fsGen <= MaxRestarts
    /\ fsThreads' = fsThreads \ {fsGen}
    /\ fsException' = isException
    /\ fsPc' = "sleep"
    /\ UNCHANGED <<inflight, hung, skipped, fsGen, fsArgs, orch>>
    /\ UNCHANGED <<wfVars, detVars, runVars>>

\* A health monitor that starts a thread at every tick.
ShouldRestart_always(alive, gen) == TRUE

\* main, health monitor loop: `if not fs_thread.is_alive():`.  The condition
\* reads nothing but the liveness of the current thread: no restart count,
\* no timestamp of the last restart.
ShouldRestart(alive, gen) == ~alive

\* orchestrator._log_action as the main thread calls it.
OrchLogEntry(action_type, details, result) ==
    LogEntry(now, action_type, "Orchestrator", details, result)

\* One turn of the health-monitor loop: time.sleep(30) is over.  A dead
\* thread is logged and replaced; an exception of _log_action (logOk false)
\* or of Thread.start (startOk false) is not a KeyboardInterrupt and leaves
\* main.
HealthTick ==
    /\ orch = "monitor"
    /\ IF ~ShouldRestart(fsAlive, fsGen)
       THEN UNCHANGED <<log, fsThreads, fsPc, fsGen, fsArgs, fsException, orch>>
       ELSE \E logOk \in BOOLEAN, startOk \in BOOLEAN :
              IF ~logOk
              THEN /\ orch' = "crashed"
                   /\ UNCHANGED <<log, fsThreads, fsPc, fsGen, fsArgs, fsException>>
              ELSE /\ log' = Append(log, OrchLogEntry("watcher_restart",
                                       "FileSystemWatcher restarted", "warning"))
                   /\ IF startOk
                      THEN /\ fsThreads' = fsThreads \cup {fsGen + 1}
                           /\ fsGen' = fsGen + 1
                           /\ fsArgs' = FsThreadArgs
                           /\ fsException' = FALSE
                           /\ fsPc' = "sleep"
                           /\ UNCHANGED orch
                      ELSE /\ orch' = "crashed"
                           /\ UNCHANGED <<fsThreads, fsPc, fsGen, fsArgs, fsException>>
    /\ UNCHANGED <<inflight, hung, skipped>>
    /\ UNCHANGED <<vault, now, liPc, liItems, liSnapshot, postLog, created,
                   toolCalls, toolRet, sent>>
    /\ UNCHANGED <<detVars, runVars>>

\* KeyboardInterrupt in the main thread: logged, scheduler.shutdown(wait=False).
Interrupt ==
    /\ orch = "monitor"
    /\ log' = Append(log, OrchLogEntry("orchestrator_stop", "Stopped by user", "success"))
    /\ orch' = "stopped"
    /\ UNCHANGED <<inflight, hung, skipped, fsThreads, fsPc, fsGen, fsArgs, fsException>>
    /\ UNCHANGED <<vault, now, liPc, liItems, liSnapshot, postLog, created,
                   toolCalls, toolRet, sent>>
    /\ UNCHANGED <<detVars, runVars>>

----------------------------------------------------------------------------
(* The watchers' contract: check_for_updates (detect) and                   *)
(* create_action_file (materialize), called on one instance of each         *)
(* variant, with the sources changing in between.                           *)

MaxQueue == 2

\* Files an outside party may put into Drop_Folder: <<stem, suffix>>.
DropNames == {<<"a", ".txt">>, <<"a", ".pdf">>}

\* Ids of the messages the mail source may hold.
MsgIds == {1, 2}

\* messages().list(..., maxResults=20)
MaxResults == 20

Range(q) == {q[i] : i \in DOMAIN q}

Min(a, b) == IF a <= b THEN a ELSE b

RECURSIVE SortedInts(_)
SortedInts(S) ==
    IF S = {} THEN <<>>
    ELSE LET m == CHOOSE x \in S : \A y \in S : x <= y
         IN <<m>> \o SortedInts(S \ {m})

\* A call other than check_for_updates on watcher w, or a change of its source.
Touched(w) ==
    /\ twice' = [twice EXCEPT ![w] = "none"]
    /\ prevRes' = [prevRes EXCEPT ![w] = <<>>]

\* check_for_updates of watcher w returned res.
Detected(w, res) ==
    /\ prevRes' = [prevRes EXCEPT ![w] = lastRes[w]]
    /\ lastRes' = [lastRes EXCEPT ![w] = res]
    /\ twice' = [twice EXCEPT ![w] = IF @ = "none" THEN "once" ELSE "twice"]

\* The watchdog observer of the current FileSystemWatcher instance delivers
\* events: run has started it (observer.start()) and has not left its loop
\* (the finally clause stops it).
ObserverRunning == instGen = fsGen /\ loopPc \notin {"dead", "stopped"}

\* A file is created in Drop_Folder.  DropFolderHandler.on_created: a file
\* that is not hidden is appended to the watcher's pending_files; without a
\* running observer nobody is notified.
DropFile(f) ==
    /\ variant = "drop_folder"
    /\ f \in DropNames \ dropFolder
    /\ Len(pending_files) < MaxQueue
    /\ dropFolder' = dropFolder \cup {f}
    /\ pending_files' = IF ObserverRunning
                        THEN Append(pending_files, f)
                        ELSE pending_files
    /\ Touched("drop_folder")
    /\ UNCHANGED <<processed_files, mailbox, processed_ids, gmailUp, lastRes>>
    /\ UNCHANGED <<wfVars, orchVars, runVars>>
    /\ UNCHANGED variant

\* The file is taken out of Drop_Folder again by the outside party.
RemoveDropped(f) ==
    /\ variant = "drop_folder"
    /\ f \in dropFolder
    /\ dropFolder' = dropFolder \ {f}
    /\ Touched("drop_folder")
    /\ UNCHANGED <<pending_files, processed_files, mailbox, processed_ids,
                   gmailUp, lastRes>>
    /\ UNCHANGED <<wfVars, orchVars, runVars>>
    /\ UNCHANGED variant

\* A check_for_updates that does not consult processed_files.
FileSystemWatcher_new_items_unfiltered(q, processed, folder) ==
    SelectSeq(q, LAMBDA f : f \in folder)

\* A check_for_updates that returns the queued paths last in, first out.
FileSystemWatcher_new_items_lifo(q, processed, folder) ==
    LET fifo == SelectSeq(q, LAMBDA f : f \notin processed /\ f \in folder)
    IN [i \in 1..Len(fifo) |-> fifo[Len(fifo) + 1 - i]]

\* The result of FileSystemWatcher.check_for_updates on queue q: the queued
\* paths, in queue order, whose name is not processed and that still exist.
FileSystemWatcher_new_items(q, processed, folder) ==
    SelectSeq(q, LAMBDA f : f \notin processed /\ f \in folder)

\* FileSystemWatcher.check_for_updates: what is left in pending_files.
FileSystemWatcher_queue_after(q) == <<>>

FileSystemWatcher_check_for_updates ==
    /\ variant = "drop_folder"
    /\ Detected("drop_folder",
                FileSystemWatcher_new_items(pending_files, processed_files, dropFolder))
    /\ pending_files' = FileSystemWatcher_queue_after(pending_files)
    /\ UNCHANGED <<processed_files, dropFolder, mailbox, processed_ids, gmailUp>>
    /\ UNCHANGED <<wfVars, orchVars, runVars>>
    /\ UNCHANGED variant

\* FileSystemWatcher.create_action_file: file_id = FILE_<stem>_<timestamp>;
\* the metadata record is <file_id>.md, the copy is <file_id><suffix>.
FileSystemWatcher_meta_path(item, ts) == <<"FILE", item[1], ts>>

FileSystemWatcher_dest_file(item, ts) == <<"FILE", item[1], ts, item[2]>>

\* FileSystemWatcher.create_action_file: what it writes into Needs_Action,
\* the copy of the dropped file and then the metadata record.
FileSystemWatcher_record(v, item, ts) ==
    WriteFile(WriteFile(v, "Needs_Action", FileSystemWatcher_dest_file(item, ts),
                        Content("file_copy", "", "", item[2], 0)),
              "Needs_Action", FileSystemWatcher_meta_path(item, ts),
              Content("file_drop", "pending", "## dropped file", item[2], 0))

\* FileSystemWatcher.create_action_file(item): FILE_<stem>_<timestamp>.md is
\* written next to the copy and the name joins processed_files; shutil.copy2
\* raises when the file is gone, and nothing is written.
FileSystemWatcher_create_action_file(item) ==
    /\ variant = "drop_folder"
    /\ item \in Range(lastRes["drop_folder"])
    /\ item \notin processed_files
    /\ IF item \in dropFolder
       THEN /\ vault' = FileSystemWatcher_record(vault, item, now)
            /\ processed_files' = processed_files \cup {item}
       ELSE UNCHANGED <<vault, processed_files>>
    /\ Touched("drop_folder")
    /\ UNCHANGED <<pending_files, dropFolder, mailbox, processed_ids, gmailUp, lastRes>>
    /\ UNCHANGED <<log, now, liPc, liItems, liSnapshot, postLog, created,
                   toolCalls, toolRet, sent>>
    /\ UNCHANGED <<orchVars, runVars>>
    /\ UNCHANGED variant

\* A new unread, important message arrives at the mail source.
MailArrives(m) ==
    /\ variant = "inbox"
    /\ m \in MsgIds \ DOMAIN mailbox
    /\ mailbox' = [k \in DOMAIN mailbox \cup {m} |-> IF k = m THEN TRUE ELSE mailbox[k]]
    /\ Touched("inbox")
    /\ UNCHANGED <<pending_files, processed_files, dropFolder, processed_ids,
                   gmailUp, lastRes>>
    /\ UNCHANGED <<wfVars, orchVars, runVars>>
    /\ UNCHANGED variant

\* The Gmail API becomes unreachable, or reachable again.
GmailFlips ==
    /\ variant = "inbox"
    /\ gmailUp' = ~gmailUp
    /\ Touched("inbox")
    /\ UNCHANGED <<pending_files, processed_files, dropFolder, mailbox,
                   processed_ids, lastRes>>
    /\ UNCHANGED <<wfVars, orchVars, runVars>>
    /\ UNCHANGED variant

\* The result of GmailWatcher.check_for_updates: [] when list raises, else
\* the first maxResults unread messages whose id is not in processed_ids.
GmailWatcher_new_emails(box, processed, up) ==
    IF ~up THEN <<>>
    ELSE LET unread   == SortedInts({m \in DOMAIN box : box[m]})
             messages == SubSeq(unread, 1, Min(MaxResults, Len(unread)))
         IN SelectSeq(messages, LAMBDA m : m \notin processed)

GmailWatcher_check_for_updates ==
    /\ variant = "inbox"
    /\ Detected("inbox", GmailWatcher_new_emails(mailbox, processed_ids, gmailUp))
    /\ UNCHANGED <<pending_files, processed_files, dropFolder, mailbox,
                   processed_ids, gmailUp>>
    /\ UNCHANGED <<wfVars, orchVars, runVars>>
    /\ UNCHANGED variant

\* GmailWatcher.create_action_file: the record EMAIL_<id>_<timestamp>.md.
GmailWatcher_meta_path(m, ts) == <<"EMAIL", m, ts>>

GmailWatcher_record(v, m, ts) ==
    WriteFile(v, "Needs_Action", GmailWatcher_meta_path(m, ts),
              Content("email", "pending", "## incoming email", "snippet", 0))

\* GmailWatcher._mark_as_read: UNREAD is removed from the message unless the
\* modify call fails, which is only logged as a warning.
mark_as_read(box, m, ok) ==
    IF ok /\ m \in DOMAIN box THEN [box EXCEPT ![m] = FALSE] ELSE box

\* GmailWatcher.create_action_file(item): EMAIL_<id>_<timestamp>.md is
\* written, _mark_as_read removes UNREAD unless the call fails (it only
\* warns), and the id joins processed_ids.
GmailWatcher_create_action_file(m) ==
    /\ variant = "inbox"
    /\ m \in Range(lastRes["inbox"])
    /\ m \notin processed_ids
    /\ vault' = GmailWatcher_record(vault, m, now)
    /\ \E markOk \in BOOLEAN :
         mailbox' = mark_as_read(mailbox, m, gmailUp /\ markOk)
    /\ processed_ids' = processed_ids \cup {m}
    /\ Touched("inbox")
    /\ UNCHANGED <<pending_files, processed_files, dropFolder, gmailUp, lastRes>>
    /\ UNCHANGED <<log, now, liPc, liItems, liSnapshot, postLog, created,
                   toolCalls, toolRet, sent>>
    /\ UNCHANGED <<orchVars, runVars>>
    /\ UNCHANGED variant

\* LinkedInPoster.check_for_updates, called on its own.
LinkedInPoster_detect ==
    /\ variant = "approval_queue"
    /\ Detected("approval_queue", LinkedInPoster_check_for_updates(vault))
    /\ UNCHANGED <<pending_files, processed_files, dropFolder, mailbox,
                   processed_ids, gmailUp>>
    /\ UNCHANGED <<wfVars, orchVars, runVars>>
    /\ UNCHANGED variant

\* LinkedInPoster.create_action_file(item), called on a path of the last
\* batch that is still there.
LinkedInPoster_create_action_file(item) ==
    /\ variant = "approval_queue"
    /\ item \in Range(lastRes["approval_queue"])
    /\ Exists(vault, item[1], item[2])
    /\ Len(postLog) < MaxPostCalls
    /\ \E outcome \in PostOutcomes, moveOk \in BOOLEAN :
         LET r == create_action_file_result(item, outcome, moveOk)
         IN /\ vault' = r.vault
            /\ log' = r.log
            /\ postLog' = r.postLog
    /\ Touched("approval_queue")
    /\ UNCHANGED <<pending_files, processed_files, dropFolder, mailbox,
                   processed_ids, gmailUp, lastRes>>
    /\ UNCHANGED <<now, liPc, liItems, liSnapshot, created, toolCalls, toolRet, sent>>
    /\ UNCHANGED <<orchVars, runVars>>
    /\ UNCHANGED variant

----------------------------------------------------------------------------
(* The watchers' run loops: FileSystemWatcher.run for the drop-folder       *)
(* watcher, BaseWatcher.run for the inbox and the approval-queue watcher,   *)
(* and the orchestrator's once-per-cycle Gmail job.                         *)

MaxCycles == 2

\* BaseWatcher.log_action as the run loop calls it after create_action_file.
CreatedEntry(actor, name) ==
    LogEntry(now, "action_file_created", actor, <<"Created", name>>, "success")

\* BaseWatcher.run, except Exception: log_action("watcher_error", ..., "error").
WatcherErrorEntry(actor, key) ==
    LogEntry(now, "watcher_error", actor, <<"Error", key>>, "error")

\* FileSystemWatcher.run: `items = self.check_for_updates()`.
FileSystemWatcher_poll ==
    /\ variant = "drop_folder"
    /\ loopPc = "check"
    /\ LET res == FileSystemWatcher_new_items(pending_files, processed_files, dropFolder)
       IN /\ Detected("drop_folder", res)
          /\ loopItems' = res
          /\ loopPc' = IF res = <<>> THEN "sleep" ELSE "batch"
    /\ pending_files' = FileSystemWatcher_queue_after(pending_files)
    /\ UNCHANGED <<processed_files, dropFolder, mailbox, processed_ids, gmailUp,
                   variant, lastCall, exited, dashboard, auxVars>>
    /\ UNCHANGED <<wfVars, orchVars>>

\* The same, counted as one of the loop's cycles.
FileSystemWatcher_run_check ==
    /\ cycles < MaxCycles
    /\ cycles' = cycles + 1
    /\ FileSystemWatcher_poll

\* FileSystemWatcher.run: one turn of `for item in items`, create_action_file
\* and log_action.  The loop has no except clause for Exception: when
\* shutil.copy2 or write_text raises (the file is gone, the disk is full) the
\* exception leaves run and the loop is over.
FileSystemWatcher_run_item ==
    /\ variant = "drop_folder"
    /\ loopPc = "batch"
    /\ loopItems # <<>>
    /\ LET item == Head(loopItems)
       IN \E writeOk \in BOOLEAN :
            IF item \in dropFolder /\ writeOk
            THEN /\ vault' = FileSystemWatcher_record(vault, item, now)
                 /\ processed_files' = processed_files \cup {item}
                 /\ log' = Append(log, CreatedEntry("FileSystemWatcher",
                                         FileSystemWatcher_meta_path(item, now)))
                 /\ lastCall' = <<item, "returned">>
                 /\ loopItems' = Tail(loopItems)
                 /\ loopPc' = IF Tail(loopItems) = <<>> THEN "sleep" ELSE "batch"
            ELSE /\ UNCHANGED <<vault, processed_files, log>>
                 /\ lastCall' = <<item, "raised">>
                 /\ loopItems' = <<>>
                 /\ loopPc' = "dead"
    /\ Touched("drop_folder")
    /\ UNCHANGED <<pending_files, dropFolder, mailbox, processed_ids, gmailUp,
                   lastRes, variant, cycles, exited, dashboard, auxVars>>
    /\ UNCHANGED <<now, liPc, liItems, liSnapshot, postLog, created,
                   toolCalls, toolRet, sent>>
    /\ UNCHANGED orchVars

\* A FileSystemWatcher that loads the processed names of the instance before.
FileSystemWatcher_init_processed_kept(old) == old

\* FileSystemWatcher.__init__: `self.processed_files: set[str] = set()`.
FileSystemWatcher_init_processed(old) == {}

\* FileSystemWatcher.__init__: `self.pending_files: list[Path] = []`.
FileSystemWatcher_init_pending(old) == <<>>

\* orchestrator._start_filesystem_watcher in a WatcherThread that has just
\* been started: a FileSystemWatcher is constructed and its run begins, which
\* starts the observer and logs watcher_start.
start_filesystem_watcher ==
    /\ variant = "drop_folder"
    /\ orch = "monitor"
    /\ fsAlive
    /\ instGen < fsGen
    /\ instGen' = fsGen
    /\ processed_files' = FileSystemWatcher_init_processed(processed_files)
    /\ pending_files' = FileSystemWatcher_init_pending(pending_files)
    /\ loopPc' = "check"
    /\ loopItems' = <<>>
    /\ log' = Append(log, LogEntry(now, "watcher_start", "FileSystemWatcher",
                                   "Monitoring drop_folder", "success"))
    /\ lastRes' = [lastRes EXCEPT !["drop_folder"] = <<>>]
    /\ Touched("drop_folder")
    /\ UNCHANGED <<dropFolder, mailbox, processed_ids, gmailUp, variant>>
    /\ UNCHANGED <<lastCall, cycles, exited, dashboard, gmailConfig, writers, logFiles>>
    /\ UNCHANGED <<vault, now, liPc, liItems, liSnapshot, postLog, created,
                   toolCalls, toolRet, sent>>
    /\ UNCHANGED orchVars

\* WatcherThread.run: the exception that left FileSystemWatcher.run is kept
\* in _exception and the thread ends.
WatcherThread_run_ends ==
    /\ variant = "drop_folder"
    /\ fsAlive
    /\ instGen = fsGen
    /\ loopPc = "dead"
    /\ fsThreads' = fsThreads \ {fsGen}
    /\ fsException' = TRUE
    /\ UNCHANGED <<inflight, hung, skipped, fsPc, fsGen, fsArgs, orch>>
    /\ UNCHANGED <<wfVars, detVars, runVars>>

\* BaseWatcher.run with a GmailWatcher: `items = self.check_for_updates()`.
\* _ensure_service is called outside the try of check_for_updates: when the
\* service cannot be built the exception reaches the loop's except clause.
GmailWatcher_run_check ==
    /\ variant = "inbox"
    /\ loopPc = "check"
    /\ cycles < MaxCycles
    /\ cycles' = cycles + 1
    /\ \E serviceOk \in BOOLEAN :
         IF serviceOk
         THEN LET res == GmailWatcher_new_emails(mailbox, processed_ids, gmailUp)
              IN /\ Detected("inbox", res)
                 /\ loopItems' = res
                 /\ loopPc' = IF res = <<>> THEN "sleep" ELSE "batch"
                 /\ UNCHANGED log
         ELSE /\ log' = Append(log, WatcherErrorEntry("GmailWatcher", "service"))
              /\ loopItems' = <<>>
              /\ loopPc' = "sleep"
              /\ UNCHANGED <<lastRes, prevRes, twice>>
    /\ UNCHANGED <<pending_files, processed_files, dropFolder, mailbox,
                   processed_ids, gmailUp, variant, lastCall, exited, dashboard, auxVars>>
    /\ UNCHANGED <<vault, now, liPc, liItems, liSnapshot, postLog, created,
                   toolCalls, toolRet, sent>>
    /\ UNCHANGED orchVars

\* BaseWatcher.run with a GmailWatcher: one turn of `for item in items`.
\* An exception of write_text is caught by the loop, logged as watcher_error
\* and the rest of the batch is dropped until the next cycle.
GmailWatcher_run_item ==
    /\ variant = "inbox"
    /\ loopPc = "batch"
    /\ loopItems # <<>>
    /\ LET m == Head(loopItems)
       IN \E writeOk \in BOOLEAN, markOk \in BOOLEAN :
            IF writeOk
            THEN /\ vault' = GmailWatcher_record(vault, m, now)
                 /\ mailbox' = mark_as_read(mailbox, m, gmailUp /\ markOk)
                 /\ processed_ids' = processed_ids \cup {m}
                 /\ log' = Append(log, CreatedEntry("GmailWatcher",
                                         GmailWatcher_meta_path(m, now)))
                 /\ lastCall' = <<m, "returned">>
                 /\ loopItems' = Tail(loopItems)
                 /\ loopPc' = IF Tail(loopItems) = <<>> THEN "sleep" ELSE "batch"
            ELSE /\ UNCHANGED <<vault, mailbox, processed_ids>>
                 /\ log' = Append(log, WatcherErrorEntry("GmailWatcher", m))
                 /\ lastCall' = <<m, "raised">>
                 /\ loopItems' = <<>>
                 /\ loopPc' = "sleep"
    /\ Touched("inbox")
    /\ UNCHANGED <<pending_files, processed_files, dropFolder, gmailUp,
                   lastRes, variant, cycles, exited, dashboard, auxVars>>
    /\ UNCHANGED <<now, liPc, liItems, liSnapshot, postLog, created,
                   toolCalls, toolRet, sent>>
    /\ UNCHANGED orchVars

\* BaseWatcher.run with a LinkedInPoster: `items = self.check_for_updates()`.
LinkedInPoster_run_check ==
    /\ variant = "approval_queue"
    /\ loopPc = "check"
    /\ cycles < MaxCycles
    /\ cycles' = cycles + 1
    /\ LET res == LinkedInPoster_check_for_updates(vault)
       IN /\ Detected("approval_queue", res)
          /\ loopItems' = res
          /\ loopPc' = IF res = <<>> THEN "sleep" ELSE "batch"
    /\ UNCHANGED <<pending_files, processed_files, dropFolder, mailbox,
                   processed_ids, gmailUp, variant, lastCall, exited, dashboard, auxVars>>
    /\ UNCHANGED <<wfVars, orchVars>>

\* BaseWatcher.run with a LinkedInPoster: one turn of `for item in items`,
\* create_action_file (which logs linkedin_post itself) and then the loop's
\* log_action("action_file_created").
LinkedInPoster_run_item ==
    /\ variant = "approval_queue"
    /\ loopPc = "batch"
    /\ loopItems # <<>>
    /\ Len(postLog) < MaxPostCalls
    /\ LET item == Head(loopItems)
       IN \E outcome \in PostOutcomes, moveOk \in BOOLEAN :
            LET r == create_action_file_result(item, outcome, moveOk)
            IN /\ vault' = r.vault
               /\ postLog' = r.postLog
               /\ IF r.raised
                  THEN /\ log' = Append(r.log, WatcherErrorEntry("LinkedInPoster", item[2]))
                       /\ lastCall' = <<item, "raised">>
                       /\ loopItems' = <<>>
                       /\ loopPc' = "sleep"
                  ELSE /\ log' = Append(r.log, CreatedEntry("LinkedInPoster", item[2]))
                       /\ lastCall' = <<item, "returned">>
                       /\ loopItems' = Tail(loopItems)
                       /\ loopPc' = IF Tail(loopItems) = <<>> THEN "sleep" ELSE "batch"
    /\ Touched("approval_queue")
    /\ UNCHANGED <<pending_files, processed_files, dropFolder, mailbox,
                   processed_ids, gmailUp, lastRes, variant, cycles, exited, dashboard, auxVars>>
    /\ UNCHANGED <<now, liPc, liItems, liSnapshot, created, toolCalls, toolRet, sent>>
    /\ UNCHANGED orchVars

\* time.sleep(self.check_interval) is over: the loop begins its next cycle.
run_sleep_over ==
    /\ loopPc = "sleep"
    /\ loopPc' = "check"
    /\ UNCHANGED <<loopItems, lastCall, cycles, exited, dashboard, auxVars>>
    /\ UNCHANGED <<wfVars, orchVars, detVars>>

\* A create_action_file that marks the message read before it writes.
GmailWatcher_create_steps_mark_first == <<"mark", "write", "add">>

\* GmailWatcher.create_action_file, its three effects in statement order:
\* meta_path.write_text(...), self._mark_as_read(item["id"]),
\* self.processed_ids.add(item["id"]).
GmailWatcher_create_steps == <<"write", "mark", "add">>

\* The statement after statement st, or "return" after the last one.
GmailWatcher_step_after(st) ==
    LET i == CHOOSE k \in DOMAIN GmailWatcher_create_steps :
                GmailWatcher_create_steps[k] = st
    IN IF i < Len(GmailWatcher_create_steps)
       THEN GmailWatcher_create_steps[i + 1]
       ELSE "return"

\* BaseWatcher.run with a GmailWatcher: create_action_file(item) is entered
\* for the next item of the batch.
GmailWatcher_create_begin ==
    /\ variant = "inbox"
    /\ loopPc = "batch"
    /\ loopItems # <<>>
    /\ loopPc' = GmailWatcher_create_steps[1]
    /\ UNCHANGED <<loopItems, lastCall, cycles, exited, dashboard, auxVars>>
    /\ UNCHANGED <<wfVars, orchVars, detVars>>

\* create_action_file: meta_path.write_text(content).  When it raises, the
\* loop's except clause logs watcher_error and the batch is over.
GmailWatcher_create_write ==
    /\ variant = "inbox"
    /\ loopPc = "write"
    /\ LET m == Head(loopItems)
       IN \E writeOk \in BOOLEAN :
            IF writeOk
            THEN /\ vault' = GmailWatcher_record(vault, m, now)
                 /\ loopPc' = GmailWatcher_step_after("write")
                 /\ UNCHANGED <<log, loopItems, lastCall>>
            ELSE /\ log' = Append(log, WatcherErrorEntry("GmailWatcher", m))
                 /\ lastCall' = <<m, "raised">>
                 /\ loopItems' = <<>>
                 /\ loopPc' = "sleep"
                 /\ UNCHANGED vault
    /\ UNCHANGED <<cycles, exited, dashboard, auxVars>>
    /\ UNCHANGED <<now, liPc, liItems, liSnapshot, postLog, created,
                   toolCalls, toolRet, sent>>
    /\ UNCHANGED <<orchVars, detVars>>

\* create_action_file: self._mark_as_read(item["id"]).
GmailWatcher_create_mark ==
    /\ variant = "inbox"
    /\ loopPc = "mark"
    /\ LET m == Head(loopItems)
       IN /\ \E markOk \in BOOLEAN :
               mailbox' = mark_as_read(mailbox, m, gmailUp /\ markOk)
          /\ lastCall' = <<m, "mark_tried">>
    /\ loopPc' = GmailWatcher_step_after("mark")
    /\ UNCHANGED <<pending_files, processed_files, dropFolder, processed_ids,
                   gmailUp, lastRes, prevRes, variant, twice>>
    /\ UNCHANGED <<loopItems, cycles, exited, dashboard, auxVars>>
    /\ UNCHANGED <<wfVars, orchVars>>

\* create_action_file: self.processed_ids.add(item["id"]).
GmailWatcher_create_add ==
    /\ variant = "inbox"
    /\ loopPc = "add"
    /\ processed_ids' = processed_ids \cup {Head(loopItems)}
    /\ loopPc' = GmailWatcher_step_after("add")
    /\ UNCHANGED <<pending_files, processed_files, dropFolder, mailbox,
                   gmailUp, lastRes, prevRes, variant, twice>>
    /\ UNCHANGED <<loopItems, lastCall, cycles, exited, dashboard, auxVars>>
    /\ UNCHANGED <<wfVars, orchVars>>

\* create_action_file returns meta_path and the loop logs action_file_created.
GmailWatcher_create_return ==
    /\ variant = "inbox"
    /\ loopPc = "return"
    /\ LET m == Head(loopItems)
       IN /\ log' = Append(log, CreatedEntry("GmailWatcher",
                                              GmailWatcher_meta_path(m, now)))
          /\ lastCall' = <<m, "returned">>
    /\ loopItems' = Tail(loopItems)
    /\ loopPc' = IF Tail(loopItems) = <<>> THEN "sleep" ELSE "batch"
    /\ UNCHANGED <<cycles, exited, dashboard, auxVars>>
    /\ UNCHANGED <<vault, now, liPc, liItems, liSnapshot, postLog, created,
                   toolCalls, toolRet, sent>>
    /\ UNCHANGED <<orchVars, detVars>>

RECURSIVE GmailWatcher_records(_, _, _)
GmailWatcher_records(v, ms, ts) ==
    IF ms = <<>> THEN v
    ELSE GmailWatcher_records(GmailWatcher_record(v, Head(ms), ts), Tail(ms), ts)

\* gmail_watcher._get_gmail_service reads two files: the saved token
\* (token_path) and the OAuth client secrets (credentials_path).
TokenStates == {"valid", "expired", "corrupt", "none"}

CredentialStates == {"valid", "invalid", "missing"}

GmailConfigs == [token : TokenStates, credentials : CredentialStates]

RefreshableConfig == [token |-> "expired", credentials |-> "valid"]

\* A _get_gmail_service that returns a service object whatever the files hold.
get_gmail_service_unchecked(cfg) == {"service"}

\* gmail_watcher._get_gmail_service: the ways the call can end.  A valid
\* token gives the service; an expired one is refreshed, which succeeds or
\* raises; a corrupt token file raises in from_authorized_user_file; with no
\* token the client secrets are needed: FileNotFoundError when the file is
\* missing, an exception of from_client_secrets_file when it is invalid, the
\* consent flow and then the service when it is valid.
get_gmail_service(cfg) ==
    CASE cfg.token = "valid"   -> {"service"}
      [] cfg.token = "expired" -> {"service", "raise"}
      [] cfg.token = "corrupt" -> {"raise"}
      [] OTHER -> IF cfg.credentials = "valid" THEN {"service"} ELSE {"raise"}

\* A job that marks the whole batch read before it materializes it.
GmailWatcher_markable_batch(items, done) == Range(items)

\* The messages one invocation may mark read: create_action_file calls
\* _mark_as_read for the item it has just written, so only the items
\* materialized before an exception ended the loop.
GmailWatcher_markable(items, done) == Range(done)

\* orchestrator._run_gmail_watcher_once: a new GmailWatcher (its processed_ids
\* empty) is built, check_for_updates runs, and create_action_file is called
\* for each item; the function logs through logger only, and its
\* `except Exception` keeps an exception of _ensure_service inside the job.
\* done is the prefix of the items materialized before write_text raises (all
\* of them when it does not), marked the messages whose UNREAD label was
\* removed.
run_gmail_watcher_once_body ==
    \E outcome \in get_gmail_service(gmailConfig) :
       LET items == IF outcome = "service"
                    THEN GmailWatcher_new_emails(mailbox, {}, gmailUp)
                    ELSE <<>>
       IN \E k \in 0..Len(items) :
            LET done == SubSeq(items, 1, k)
            IN \E marked \in SUBSET GmailWatcher_markable(items, done) :
                 /\ vault' = GmailWatcher_records(vault, done, now)
                 /\ mailbox' = [m \in DOMAIN mailbox |->
                                   IF m \in marked THEN FALSE ELSE mailbox[m]]
                 /\ lastCall' = <<done, "job">>

\* One whole invocation of _run_gmail_watcher_once.
run_gmail_watcher_once ==
    /\ variant = "inbox"
    /\ cycles < MaxCycles
    /\ cycles' = cycles + 1
    /\ run_gmail_watcher_once_body
    /\ Touched("inbox")
    /\ UNCHANGED <<pending_files, processed_files, dropFolder, processed_ids,
                   gmailUp, lastRes, variant, loopPc, loopItems, exited, dashboard, auxVars>>
    /\ UNCHANGED <<log, now, liPc, liItems, liSnapshot, postLog, created,
                   toolCalls, toolRet, sent>>
    /\ UNCHANGED orchVars

\* The scheduler's worker thread runs _run_gmail_watcher_once to its end and
\* the invocation is over.
GmailJobRun ==
    /\ orch = "monitor"
    /\ variant = "inbox"
    /\ inflight["gmail_watcher"] > hung["gmail_watcher"]
    /\ inflight' = [inflight EXCEPT !["gmail_watcher"] = @ - 1]
    /\ run_gmail_watcher_once_body
    /\ Touched("inbox")
    /\ UNCHANGED <<hung, skipped, fsThreads, fsPc, fsGen, fsArgs, fsException, orch>>
    /\ UNCHANGED <<pending_files, processed_files, dropFolder, processed_ids,
                   gmailUp, lastRes, variant>>
    /\ UNCHANGED <<loopPc, loopItems, cycles, exited, dashboard, auxVars>>
    /\ UNCHANGED <<log, now, liPc, liItems, liSnapshot, postLog, created,
                   toolCalls, toolRet, sent>>

\* A fresh copy of an archived request is written into Pending_Approval
\* under the name of the original, to be approved again.
ResubmitLinkedInPost(n, c) ==
    /\ n \in created
    /\ c \in PostTemplates
    /\ ~Exists(vault, "Pending_Approval", n)
    /\ ~Exists(vault, "Approved", n)
    /\ ~Exists(vault, "Rejected", n)
    /\ vault' = WriteFile(vault, "Pending_Approval", n, c)
    /\ UNCHANGED <<log, now, liPc, liItems, liSnapshot, postLog, created,
                   toolCalls, toolRet, sent>>
    /\ UNCHANGED <<orchVars, detVars, runVars>>

----------------------------------------------------------------------------
(* Status aggregator: orchestrator._update_dashboard *)

MaxRefreshes == 2

\* .gitkeep, the hidden entry a store directory may hold.
HiddenName == <<".gitkeep">>

\* f.name.startswith(".")
IsHidden(n) == n[1] = ".gitkeep"

\* _update_dashboard.folders: the directories whose counts are published.
DashboardFolders ==
    {"Inbox", "Needs_Action", "Pending_Approval", "Approved", "Plans", "Done"}

\* _update_dashboard.count_items: 0 for a missing directory, else the number
\* of entries whose name does not start with a dot.
count_items(v, folder) ==
    IF folder \notin DOMAIN v THEN 0
    ELSE Cardinality({n \in DOMAIN v[folder] : ~IsHidden(n)})

\* The "Folder Summary" table of Dashboard.md.
DashboardOf(v) == [f \in DashboardFolders |-> count_items(v, f)]

NoDashboard == [f \in {} |-> 0]

\* An _update_dashboard that clears Done after counting it.
update_dashboard_store_cleared(v) == [v EXCEPT !["Done"] = EmptyDir]

\* _update_dashboard: the stage directories after the refresh.  The function
\* only iterates them (folder.iterdir()); its one write_text is Dashboard.md.
update_dashboard_store(v) == v

\* _update_dashboard: Dashboard.md is rewritten and the refresh is logged.
update_dashboard ==
    /\ Len(log) < MaxRefreshes
    /\ dashboard' = DashboardOf(vault)
    /\ vault' = update_dashboard_store(vault)
    /\ log' = Append(log, OrchLogEntry("dashboard_update", "Dashboard.md refreshed",
                                       "success"))
    /\ UNCHANGED <<now, liPc, liItems, liSnapshot, postLog, created,
                   toolCalls, toolRet, sent>>
    /\ UNCHANGED <<loopVars, exited, auxVars>>
    /\ UNCHANGED <<orchVars, detVars>>

\* A .gitkeep file is put into a store directory.
PutHidden(d) ==
    /\ d \in Dirs
    /\ ~Exists(vault, d, HiddenName)
    /\ vault' = WriteFile(vault, d, HiddenName, Content("keep", "", "", "", 0))
    /\ UNCHANGED <<log, now, liPc, liItems, liSnapshot, postLog, created,
                   toolCalls, toolRet, sent>>
    /\ UNCHANGED <<orchVars, detVars, runVars>>

----------------------------------------------------------------------------
(* The end of the orchestrator process after the user's interrupt.          *)

\* After scheduler.shutdown(wait=False) main returns; a job invocation that
\* is running on a worker thread of the scheduler's pool still returns (the
\* interpreter joins the pool's threads before it exits).
JobDrain(j) ==
    /\ orch = "stopped"
    /\ ~exited
    /\ inflight[j] > hung[j]
    /\ inflight' = [inflight EXCEPT ![j] = @ - 1]
    /\ UNCHANGED <<hung, skipped, fsThreads, fsPc, fsGen, fsArgs, fsException, orch>>
    /\ UNCHANGED <<loopVars, exited, dashboard, auxVars>>
    /\ UNCHANGED <<wfVars, detVars>>

\* The interpreter exits: WatcherThread is a daemon thread (daemon=True) and
\* is not waited for; it ends wherever its loop is.
ProcessExit ==
    /\ orch = "stopped"
    /\ ~exited
    /\ \A j \in Jobs : inflight[j] = 0
    /\ exited' = TRUE
    /\ UNCHANGED <<loopVars, dashboard, auxVars>>
    /\ UNCHANGED <<wfVars, orchVars, detVars>>

----------------------------------------------------------------------------
(* The audit log: BaseWatcher.log_action, orchestrator._log_action and the   *)
(* tool server's _log_action.  The three are the same statements: the file   *)
(* name is made from one reading of the clock, the timestamp field from a    *)
(* second one, and the line is appended to the file; nothing is locked.      *)

MaxLogClock == 3

MaxEntries == 3

\* Seconds in a day of the model's clock.
DaySeconds == 2

Days == 0..(MaxLogClock \div DaySeconds)

\* The components that append to the log, by the actor they write.
Loggers == {"Orchestrator", "FileSystemWatcher", "GmailSendMCP"}

\* datetime.now(timezone.utc).strftime("%Y-%m-%d")
UtcDate(ts) == ts \div DaySeconds

\* No call in progress.  seen is the number of lines the call found in its
\* file when it began.
IdleWriter == [pc |-> "idle", today |-> 0, timestamp |-> 0, seen |-> 0]

EntriesBegun ==
    Cardinality({c \in Loggers : writers[c].pc # "idle"})

RECURSIVE EntriesWritten(_)
EntriesWritten(D) ==
    IF D = {} THEN 0
    ELSE LET d == CHOOSE x \in D : TRUE
         IN Len(logFiles[d]) + EntriesWritten(D \ {d})

\* A log_action that writes its line at the head of the file.
log_file_prepend(file, entry) == <<entry>> \o file

\* open(log_file, "a").write(json.dumps(entry) + "\n")
log_file_append(file, entry) == Append(file, entry)

\* log_action: `today = datetime.now(timezone.utc).strftime("%Y-%m-%d")`.
log_action_today(c) ==
    /\ writers[c].pc = "idle"
    /\ EntriesBegun + EntriesWritten(Days) < MaxEntries
    /\ writers' = [writers EXCEPT ![c] =
                      [pc |-> "named", today |-> UtcDate(now), timestamp |-> 0,
                       seen |-> Len(logFiles[UtcDate(now)])]]
    /\ UNCHANGED <<logFiles, instGen, gmailConfig, loopVars, exited, dashboard>>
    /\ UNCHANGED <<wfVars, orchVars, detVars>>

\* log_action: `"timestamp": datetime.now(timezone.utc).isoformat()`.
log_action_timestamp(c) ==
    /\ writers[c].pc = "named"
    /\ writers' = [writers EXCEPT ![c] = [@ EXCEPT !.pc = "stamped", !.timestamp = now]]
    /\ UNCHANGED <<logFiles, instGen, gmailConfig, loopVars, exited, dashboard>>
    /\ UNCHANGED <<wfVars, orchVars, detVars>>

\* The line a call in state w of component c writes.
WriterEntry(c, w) == LogEntry(w.timestamp, "action", c, "details", "success")

\* log_action: the line is appended to Logs/<today>.json.
log_action_append(c) ==
    /\ writers[c].pc = "stamped"
    /\ logFiles' = [logFiles EXCEPT ![writers[c].today] =
                        log_file_append(@, WriterEntry(c, writers[c]))]
    /\ writers' = [writers EXCEPT ![c] = IdleWriter]
    /\ UNCHANGED <<instGen, gmailConfig, loopVars, exited, dashboard>>
    /\ UNCHANGED <<wfVars, orchVars, detVars>>

\* A second of the clock passes.
LogTick ==
    /\ now < MaxLogClock
    /\ now' = now + 1
    /\ UNCHANGED <<vault, log, liPc, liItems, liSnapshot, postLog,
                   created, toolCalls, toolRet, sent>>
    /\ UNCHANGED <<orchVars, detVars, runVars>>

----------------------------------------------------------------------------
(* Specification of the approval workflow *)

OrchIdle ==
    /\ inflight = [j \in Jobs |-> 0]
    /\ hung = [j \in Jobs |-> 0]
    /\ skipped = [j \in Jobs |-> FALSE]
    /\ fsThreads = {1}
    /\ fsPc = "sleep"
    /\ fsGen = 1
    /\ fsArgs = FsThreadArgs
    /\ fsException = FALSE
    /\ orch = "monitor"

DetectFresh ==
    /\ pending_files = <<>>
    /\ processed_files = {}
    /\ dropFolder = {}
    /\ mailbox = [m \in {} |-> TRUE]
    /\ processed_ids = {}
    /\ gmailUp = TRUE
    /\ lastRes = [w \in Watchers |-> <<>>]
    /\ prevRes = [w \in Watchers |-> <<>>]
    /\ twice = [w \in Watchers |-> "none"]

DetectIdle == DetectFresh /\ variant = "approval_queue"

\* A run loop about to begin its first cycle; no Dashboard.md yet.
LoopIdle ==
    /\ loopPc = "check"
    /\ loopItems = <<>>
    /\ lastCall = <<>>
    /\ cycles = 0
    /\ exited = FALSE

\* No log_action call in progress and no log file written yet.
LogIdle ==
    /\ writers = [c \in Loggers |-> IdleWriter]
    /\ logFiles = [d \in Days |-> <<>>]

\* The first WatcherThread's FileSystemWatcher is constructed and running; a
\* Gmail token that has to be refreshed at every use.
AuxIdle ==
    /\ instGen = 1
    /\ gmailConfig = RefreshableConfig
    /\ LogIdle

RunIdle == LoopIdle /\ AuxIdle

StatusIdle == dashboard = NoDashboard

WorkflowIdle ==
    /\ vault = EmptyVault
    /\ log = <<>>
    /\ now = 0
    /\ liPc = "idle"
    /\ liItems = <<>>
    /\ liSnapshot = EmptyDir
    /\ postLog = <<>>
    /\ created = {}
    /\ toolCalls = 0
    /\ toolRet = <<>>
    /\ sent = {}

Init == WorkflowIdle /\ OrchIdle /\ DetectIdle /\ RunIdle /\ StatusIdle

Next ==
    \/ toolCalls < MaxWorkflowCalls /\ call_tool_send_email
    \/ \E n \in LinkedInNames, c \in PostTemplates : RequestLinkedInPost(n, c)
    \/ \E n \in LinkedInNames \cup EmailSendNames : HumanApprove(n)
    \/ \E n \in LinkedInNames \cup EmailSendNames : HumanReject(n)
    \/ Tick
    \/ run_linkedin_check_once_start
    \/ run_linkedin_check_once_item
    \/ run_linkedin_check_once_end

Spec == Init /\ [][Next]_vars

----------------------------------------------------------------------------
(* Claims about the approval workflow (checked under Spec) *)

PostCallsFor(n) == {i \in DOMAIN postLog : postLog[i].name = n}

ArchivedAs(v, n, statuses) ==
    \E d \in DOMAIN v["Done"] : d[1] = n[1] /\ d[2] = n[2] /\ d[3] \in statuses

FailedStatuses == {"failed", "post_failed"}

\* C1: at-most-once gated effect.  For every linkedin_post record placed in
\* Approved, over any sequence of poster cycles, _post_to_linkedin is invoked
\* at most once for that record.
C1_AtMostOncePublish ==
    \A n \in LinkedInNames : Cardinality(PostCallsFor(n)) <= 1

GatedTypes == {"linkedin_post", "email_send"}

\* A gated request as its creator writes it: pending, with a body to post or
\* to send.
IsGatedRequest(c) ==
    /\ c.type \in GatedTypes
    /\ c.status = "pending"
    /\ IF c.type = "linkedin_post" THEN extract_post_body(c) # "" ELSE c.text # ""

\* C2: when a cycle of the approval workflow completes, every gated record
\* (linkedin_post or email_send) that was in Approved when the cycle began has
\* had its effect executed, is in Done with status posted (or failed), and is
\* no longer in Approved.
C2_ApprovedReachesDone ==
    [][ (liPc = "loop" /\ liPc' = "idle") =>
          \A n \in DOMAIN liSnapshot :
             IsGatedRequest(liSnapshot[n]) =>
                /\ ~Exists(vault', "Approved", n)
                /\ ArchivedAs(vault', n, {"posted"} \cup FailedStatuses)
                /\ \/ PostCallsFor(n)' # {}
                   \/ liSnapshot[n].req \in sent' ]_vars

\* C3: human gate.  A record leaves Pending_Approval only by the human's move
\* to Approved or Rejected, and the gated effect is executed only for a file
\* of Approved, never for one that resides in Pending_Approval.
C3_HumanGate ==
    [][ /\ \A n \in DOMAIN vault["Pending_Approval"] :
             ~Exists(vault', "Pending_Approval", n)
                => (HumanApprove(n) \/ HumanReject(n))
        /\ \A i \in DOMAIN postLog' :
             i > Len(postLog) =>
                /\ postLog'[i].dir = "Approved"
                /\ Exists(vault, "Approved", postLog'[i].name)
        /\ \A r \in sent' \ sent :
             \E n \in DOMAIN vault["Approved"] : vault["Approved"][n].req = r
      ]_vars

\* A cycle is under way and has run the effect while a complete
\* linkedin_post record sits in Pending_Approval.
C3_Witness ==
    /\ liPc = "loop"
    /\ postLog # <<>>
    /\ \E n \in LinkedInNames :
         /\ Exists(vault, "Pending_Approval", n)
         /\ vault["Pending_Approval"][n].type = "linkedin_post"
         /\ extract_post_body(vault["Pending_Approval"][n]) # ""

\* C4: each send_email invocation writes exactly one file, the returned path,
\* a record of Pending_Approval with type email_send and status pending;
\* appends exactly one approval_created entry to the log; and sends nothing.
\* No step sends an email whose request is not in Approved.
C4_SendEmailOnlyQueues ==
    [][ /\ toolCalls' # toolCalls =>
             /\ toolRet'[1] = "Pending_Approval"
             /\ Exists(vault', "Pending_Approval", toolRet'[2])
             /\ vault'["Pending_Approval"][toolRet'[2]].type = "email_send"
             /\ vault'["Pending_Approval"][toolRet'[2]].status = "pending"
             /\ vault'["Pending_Approval"][toolRet'[2]].req = toolCalls'
             /\ \A d \in Dirs :
                  /\ DOMAIN vault'[d] \ {toolRet'[2]} = DOMAIN vault[d] \ {toolRet'[2]}
                  /\ \A n \in DOMAIN vault[d] :
                       <<d, n>> # toolRet' => vault'[d][n] = vault[d][n]
             /\ Len(log') = Len(log) + 1
             /\ SubSeq(log', 1, Len(log)) = log
             /\ log'[Len(log')].action_type = "approval_created"
             /\ sent' = sent
        /\ \A r \in sent' \ sent :
             \E n \in DOMAIN vault["Approved"] : vault["Approved"][n].req = r
      ]_vars

\* A send_email request was queued, approved by the human, seen by a poster
\* cycle, and nothing was sent.
C4_Witness ==
    /\ toolCalls > 0
    /\ toolRet[1] = "Pending_Approval"
    /\ Exists(vault, "Approved", toolRet[2])
    /\ vault["Approved"][toolRet[2]].req = toolCalls
    /\ toolRet[2] \in DOMAIN liSnapshot
    /\ sent = {}

\* C5: side-effect failure is terminal.  Whenever _post_to_linkedin fails for
\* an approved record (returns False or raises), the record is archived to
\* Done with a failed status on that cycle, an entry with result error is
\* logged for it, and the effect is not attempted for it again.
C5_FailureIsTerminal ==
    \A i \in DOMAIN postLog :
       postLog[i].outcome # "posted" =>
          /\ ArchivedAs(vault, postLog[i].name, FailedStatuses)
          /\ \E k \in DOMAIN log :
                log[k].result = "error" /\ log[k].details[2] = postLog[i].name
          /\ \A j \in DOMAIN postLog : j > i => postLog[j].name # postLog[i].name

\* A record is told from every other by the prefix and id of its file name
\* and by the tool call that wrote it; archival keeps all three.
RecordId(n, c) == <<n[1], n[2], c.req>>

\* Stage directory d holds record r.
Holds(v, d, r) == \E n \in DOMAIN v[d] : RecordId(n, v[d][n]) = r

\* The moves of the two paths pending_approval -> approved -> done and
\* pending_approval -> rejected -> done.
StageMoves ==
    { <<"Pending_Approval", "Approved">>, <<"Pending_Approval", "Rejected">>,
      <<"Approved", "Done">>, <<"Rejected", "Done">> }

\* C15: monotonic stages.  Every record begins in Pending_Approval, every
\* step leaves it where it is or moves it along one of the two paths (never
\* to an earlier stage), and after each step it is in at most one stage
\* directory.
C15_MonotonicStages ==
    [][ \/ vault' = vault
        \/ \A d \in Dirs : \A n \in DOMAIN vault'[d] :
              LET r == RecordId(n, vault'[d][n])
              IN /\ \A e \in Dirs \ {d} : ~Holds(vault', e, r)
                 /\ \A f \in Dirs :
                       Holds(vault, f, r) => (f = d \/ <<f, d>> \in StageMoves)
                 /\ (\A f \in Dirs : ~Holds(vault, f, r)) => d = "Pending_Approval"
      ]_vars

\* One record was approved and archived by the poster while another one was
\* rejected.
C15_Witness ==
    /\ \E n \in LinkedInNames : ArchivedAs(vault, n, {"posted", "post_failed"})
    /\ \E n \in LinkedInNames : Exists(vault, "Rejected", n)

----------------------------------------------------------------------------
(* Specification of the orchestrator *)

\* The state main reaches before the health-monitor loop: the start is
\* logged, the jobs are scheduled, the first WatcherThread is started and the
\* first dashboard refresh is logged.
MainStarted ==
    /\ now = 0
    /\ vault = EmptyVault
    /\ log = << OrchLogEntry("orchestrator_start", "Silver Tier orchestrator started", "success"),
                OrchLogEntry("dashboard_update", "Dashboard.md refreshed", "success") >>
    /\ liPc = "idle"
    /\ liItems = <<>>
    /\ liSnapshot = EmptyDir
    /\ postLog = <<>>
    /\ created = {}
    /\ toolCalls = 0
    /\ toolRet = <<>>
    /\ sent = {}
    /\ OrchIdle
    /\ dashboard = DashboardOf(EmptyVault)

InitOrch ==
    /\ MainStarted
    /\ DetectIdle
    /\ RunIdle

NextOrch ==
    \/ \E j \in Jobs : JobStart(j)
    \/ \E j \in Jobs : JobSkip(j)
    \/ \E j \in Jobs : JobReturn(j)
    \/ \E j \in Jobs : JobHang(j)
    \/ FsLoopStep
    \/ \E e \in BOOLEAN : FsCrash(e)
    \/ HealthTick
    \/ Interrupt
    \/ \E j \in Jobs : JobDrain(j)
    \/ ProcessExit

SpecOrch == InitOrch /\ [][NextOrch]_vars

----------------------------------------------------------------------------
(* Claims about the orchestrator (checked under SpecOrch) *)

RestartEntry == OrchLogEntry("watcher_restart", "FileSystemWatcher restarted", "warning")

\* C6: single in-flight invocation.  No scheduled job ever has two invocations
\* running at once, and a trigger that fires while an invocation of the job
\* is in flight starts no second one.
C6_SingleInFlight ==
    \A j \in Jobs : inflight[j] <= 1

\* A trigger of a job fired while its previous invocation was still running.
C6_Witness ==
    \E j \in Jobs : skipped[j] /\ inflight[j] = 1

\* C7: job independence.  While an invocation of one job hangs, every other
\* job still starts at its trigger and returns when it is done, the
\* filesystem watcher thread still takes its loop steps, and the health
\* monitor still ticks.
C7_JobIndependence ==
    \A j \in Jobs :
       (hung[j] > 0 /\ orch = "monitor") =>
          /\ \A k \in Jobs \ {j} :
                /\ inflight[k] = 0 => ENABLED JobStart(k)
                /\ inflight[k] > hung[k] => ENABLED JobReturn(k)
          /\ fsAlive => ENABLED FsLoopStep
          /\ ENABLED HealthTick

\* The Gmail job hangs while another job is idle and a third is running.
C7_Witness ==
    /\ hung["gmail_watcher"] = 1
    /\ inflight["linkedin_poster"] = 0
    /\ inflight["dashboard_update"] = 1
    /\ hung["dashboard_update"] = 0
    /\ fsAlive
    /\ orch = "monitor"

\* C8: crash recovery.  A health-monitor tick that finds the filesystem
\* watcher thread dead while the orchestrator runs appends a watcher_restart
\* entry with result warning and starts a fresh thread with the same
\* arguments.
C8_CrashRecovery ==
    [][ (orch = "monitor" /\ ~fsAlive /\ HealthTick) =>
          /\ log' = Append(log, RestartEntry)
          /\ fsAlive'
          /\ fsGen' = fsGen + 1
          /\ fsArgs' = FsThreadArgs ]_vars

\* C9: neither a crash of the filesystem watcher nor its handling ends the
\* orchestrator; it stops only on a user interrupt.
C9_OrchestratorSurvives ==
    orch \in {"monitor", "stopped"}

\* C17: graceful shutdown.  When the orchestrator process has ended after
\* the user's interrupt, no poll cycle is left unfinished: the filesystem
\* watcher is not in the middle of a cycle and no scheduled job invocation
\* is in flight.
C17_GracefulShutdown ==
    exited => (fsPc = "sleep" /\ \A j \in Jobs : inflight[j] = 0)

\* C25: restarts are unbounded.  Whenever the orchestrator runs and the
\* filesystem watcher thread is dead, whatever the number of threads started
\* before, the next supervision tick can restart it, and every such tick
\* appends the watcher_restart warning (and nothing else: no escalation
\* entry) and starts the next thread at once.
C25_RestartsUnbounded ==
    /\ []( (orch = "monitor" /\ ~fsAlive) =>
             ENABLED (HealthTick /\ fsGen' = fsGen + 1) )
    /\ [][ (orch = "monitor" /\ ~fsAlive /\ HealthTick) =>
              /\ log' = Append(log, RestartEntry)
              /\ fsGen' = fsGen + 1
              /\ fsAlive' ]_vars

\* The same, for the ticks whose own logging and thread start succeed.
RestartsUnbounded_when_tick_succeeds ==
    /\ []( (orch = "monitor" /\ ~fsAlive) =>
             ENABLED (HealthTick /\ fsGen' = fsGen + 1) )
    /\ [][ (orch = "monitor" /\ ~fsAlive /\ HealthTick /\ orch' = "monitor") =>
              /\ log' = Append(log, RestartEntry)
              /\ fsGen' = fsGen + 1
              /\ fsAlive' ]_vars

\* C27: at every moment at most one filesystem watcher thread is alive.  A
\* thread is started only by a supervision tick that found the current one
\* dead, it becomes the current one, and a thread that has ended is never
\* alive again.
C27_OneWatcherThread ==
    /\ [](Cardinality(fsThreads) <= 1)
    /\ [][ /\ \A g \in fsThreads' \ fsThreads :
                 (~fsAlive /\ HealthTick /\ g = fsGen + 1 /\ g = fsGen')
            /\ \A h \in 1..fsGen : (h \notin fsThreads => h \notin fsThreads')
          ]_vars

\* The first thread has died and the second one, started by the health
\* monitor, is the only one alive.
C27_Witness ==
    /\ fsGen = 2
    /\ fsThreads = {2}
    /\ orch = "monitor"

----------------------------------------------------------------------------
(* Specification of the watcher contract *)

\* One freshly constructed watcher of one of the variants, on an empty vault.
InitDetect ==
    /\ WorkflowIdle /\ OrchIdle /\ DetectFresh /\ RunIdle /\ StatusIdle
    /\ variant \in Watchers

NextDetect ==
    \/ \E f \in DropNames : DropFile(f)
    \/ \E f \in DropNames : RemoveDropped(f)
    \/ FileSystemWatcher_check_for_updates
    \/ \E f \in DropNames : FileSystemWatcher_create_action_file(f)
    \/ \E m \in MsgIds : MailArrives(m)
    \/ GmailFlips
    \/ GmailWatcher_check_for_updates
    \/ \E m \in MsgIds : GmailWatcher_create_action_file(m)
    \/ \E n \in LinkedInNames, c \in PostTemplates :
          variant = "approval_queue" /\ RequestLinkedInPost(n, c)
    \/ \E n \in LinkedInNames : variant = "approval_queue" /\ HumanApprove(n)
    \/ \E n \in LinkedInNames, c \in PostTemplates :
          variant = "approval_queue" /\ ResubmitLinkedInPost(n, c)
    \/ LinkedInPoster_detect
    \/ \E n \in LinkedInNames : LinkedInPoster_create_action_file(<<approved_dir, n>>)

SpecDetect == InitDetect /\ [][NextDetect]_vars

----------------------------------------------------------------------------
(* Claims about the watcher contract (checked under SpecDetect) *)

\* C10: detect is repeatable.  For every watcher variant, two calls of
\* check_for_updates in a row, with no create_action_file and no change of
\* the source between them, return the same set of candidate events.
C10_DetectRepeatable ==
    \A w \in Watchers :
       twice[w] = "twice" => Range(lastRes[w]) = Range(prevRes[w])

\* The same, for the inbox and the approval-queue variants alone.
DetectRepeatable_inbox_and_queue ==
    \A w \in {"inbox", "approval_queue"} :
       twice[w] = "twice" => Range(lastRes[w]) = Range(prevRes[w])

ArchiveStatuses == {"posted", "post_failed", "skipped_empty_body"}

\* The request names for which LinkedInPoster.create_action_file has
\* completed: their file was archived into Done.
ArchivedNames == {n \in LinkedInNames : ArchivedAs(vault, n, ArchiveStatuses)}

----------------------------------------------------------------------------
(* Specification of the run loops *)

\* One watcher of one of the variants, about to enter its run loop; for the
\* inbox variant the orchestrator's Gmail job polls the same mailbox.
InitRun ==
    /\ WorkflowIdle /\ OrchIdle /\ DetectFresh /\ RunIdle /\ StatusIdle
    /\ variant \in Watchers

NextRun ==
    \/ \E f \in DropNames : DropFile(f)
    \/ \E f \in DropNames : RemoveDropped(f)
    \/ FileSystemWatcher_run_check
    \/ FileSystemWatcher_run_item
    \/ \E m \in MsgIds : MailArrives(m)
    \/ GmailFlips
    \/ GmailWatcher_run_check
    \/ GmailWatcher_run_item
    \/ run_gmail_watcher_once
    \/ \E n \in LinkedInNames, c \in PostTemplates :
          variant = "approval_queue" /\ RequestLinkedInPost(n, c)
    \/ \E n \in LinkedInNames : variant = "approval_queue" /\ HumanApprove(n)
    \/ LinkedInPoster_run_check
    \/ LinkedInPoster_run_item
    \/ run_sleep_over
    \/ Tick

SpecRun == InitRun /\ [][NextRun]_vars

----------------------------------------------------------------------------
(* Specification of record creation: the operations that write a new        *)
(* record file, with the clock.                                             *)

InitCreate ==
    /\ WorkflowIdle /\ OrchIdle /\ DetectFresh /\ RunIdle /\ StatusIdle
    /\ variant \in Watchers

NextCreate ==
    \/ variant = "approval_queue" /\ call_tool_send_email
    \/ \E n \in EmailSendNames : variant = "approval_queue" /\ HumanApprove(n)
    \/ \E f \in DropNames : DropFile(f)
    \/ FileSystemWatcher_check_for_updates
    \/ \E f \in DropNames : FileSystemWatcher_create_action_file(f)
    \/ \E m \in MsgIds : MailArrives(m)
    \/ GmailWatcher_check_for_updates
    \/ \E m \in MsgIds : GmailWatcher_create_action_file(m)
    \/ Tick

SpecCreate == InitCreate /\ [][NextCreate]_vars

----------------------------------------------------------------------------
(* Specification of the status aggregator: the vault changes by requests,   *)
(* human moves and hidden files, and the dashboard is refreshed.            *)

InitStatus == Init

NextStatus ==
    \/ \E n \in LinkedInNames, c \in PostTemplates : RequestLinkedInPost(n, c)
    \/ \E n \in LinkedInNames : HumanApprove(n)
    \/ \E n \in LinkedInNames : HumanReject(n)
    \/ \E d \in {"Approved", "Done"} : PutHidden(d)
    \/ update_dashboard

SpecStatus == InitStatus /\ [][NextStatus]_vars

----------------------------------------------------------------------------
(* Claims about the run loops and the Gmail job (checked under SpecRun) *)

\* The records of Needs_Action written for message m.
EmailRecordsFor(m) ==
    {n \in DOMAIN vault["Needs_Action"] : n[1] = "EMAIL" /\ n[2] = m}

\* C12: inbox deduplication across polls.  A cycle of the orchestrator's
\* Gmail job never materializes a message that already has a record in
\* Needs_Action, also when marking it read had failed; so each message id
\* has at most one record.
C12_InboxDedupAcrossPolls ==
    [][ run_gmail_watcher_once =>
          /\ \A m \in Range(lastCall'[1]) : EmailRecordsFor(m) = {}
          /\ \A m \in MsgIds : Cardinality(EmailRecordsFor(m)') <= 1 ]_vars

\* The set of processed keys of the watcher variant under study.
DedupTracker(files, ids) ==
    IF variant = "drop_folder" THEN files ELSE ids

\* What the variant's check_for_updates would return for the given queue,
\* processed keys and source.
WouldDetect(q, files, folder, box, ids, up) ==
    IF variant = "drop_folder"
    THEN Range(FileSystemWatcher_new_items(q, files, folder))
    ELSE Range(GmailWatcher_new_emails(box, ids, up))

\* The event is still offered by its source: the dropped file still exists,
\* the message is still unread and the mail source answers.
StillAtSource(k, folder, box, up) ==
    IF variant = "drop_folder" THEN k \in folder
    ELSE up /\ k \in DOMAIN box /\ box[k]

\* C13: materialization error is retried.  When create_action_file fails in
\* the run loop of the drop-folder or the inbox watcher, an entry with result
\* error is appended to the log, the event's key is not added to the set of
\* processed keys, the loop lives on, and the event, while its source still
\* offers it, is returned by the next check_for_updates.
C13_MaterializeErrorRetried ==
    [][ ((FileSystemWatcher_run_item \/ GmailWatcher_run_item)
            /\ lastCall'[2] = "raised") =>
          /\ Len(log') = Len(log) + 1
          /\ log'[Len(log')].result = "error"
          /\ lastCall'[1] \notin DedupTracker(processed_files', processed_ids')
          /\ loopPc' # "dead"
          /\ StillAtSource(lastCall'[1], dropFolder', mailbox', gmailUp')
                => lastCall'[1] \in WouldDetect(pending_files', processed_files',
                                                dropFolder', mailbox',
                                                processed_ids', gmailUp') ]_vars

\* The same for the inbox watcher alone.
MaterializeErrorRetried_inbox ==
    [][ (GmailWatcher_run_item /\ lastCall'[2] = "raised") =>
          /\ Len(log') = Len(log) + 1
          /\ log'[Len(log')].result = "error"
          /\ lastCall'[1] \notin DedupTracker(processed_files', processed_ids')
          /\ loopPc' # "dead"
          /\ StillAtSource(lastCall'[1], dropFolder', mailbox', gmailUp')
                => lastCall'[1] \in WouldDetect(pending_files', processed_files',
                                                dropFolder', mailbox',
                                                processed_ids', gmailUp') ]_vars

\* C14: a single failed poll does not end a run loop.  Neither loop ever
\* terminates because check_for_updates or create_action_file raised; after
\* the failing cycle it sleeps and begins the next cycle.
C14_LoopSurvivesFailedPoll ==
    [][ ((FileSystemWatcher_run_item \/ GmailWatcher_run_item
            \/ LinkedInPoster_run_item) /\ lastCall'[2] = "raised")
          => loopPc' = "sleep" ]_vars

\* The same for BaseWatcher.run alone (inbox and approval-queue watcher).
LoopSurvivesFailedPoll_base ==
    [][ ((GmailWatcher_run_item \/ LinkedInPoster_run_item)
            /\ lastCall'[2] = "raised")
          => loopPc' = "sleep" ]_vars

\* C18: every materialization emits exactly one audit LogEntry.  A turn of
\* a run loop that materializes an event appends exactly one entry to the
\* log, and a cycle of the orchestrator's Gmail job appends one entry for
\* each event it materializes.
C18_OneLogEntryPerMaterialization ==
    [][ /\ ((FileSystemWatcher_run_item \/ GmailWatcher_run_item
               \/ LinkedInPoster_run_item) /\ lastCall'[2] = "returned")
              => Len(log') = Len(log) + 1
        /\ run_gmail_watcher_once
              => Len(log') = Len(log) + Len(lastCall'[1]) ]_vars

\* The same for the run loops of the drop-folder and the inbox watcher alone.
OneLogEntryPerMaterialization_loops ==
    [][ ((FileSystemWatcher_run_item \/ GmailWatcher_run_item)
            /\ lastCall'[2] = "returned")
          => Len(log') = Len(log) + 1 ]_vars

\* q keeps the order of p: two elements that follow each other in q are
\* found in that order in p.
KeepsOrder(q, p) ==
    \A i \in 1..Len(q), j \in 1..Len(q) :
       i < j => \E a \in 1..Len(p), b \in 1..Len(p) :
                   a < b /\ p[a] = q[i] /\ p[b] = q[j]

\* C19: a batch is processed sequentially and in detection order.  The
\* drop-folder watcher's batch keeps the order in which the files were
\* enqueued (a creation the running observer reports is appended), the approval-queue watcher's batch is sorted by file name, each
\* create_action_file of a loop is called for the first item of the batch
\* not yet processed and, when it returns, the batch goes on with the next
\* one, and check_for_updates is not called while items of a batch remain.
C19_BatchInDetectionOrder ==
    [][ /\ FileSystemWatcher_run_check =>
             /\ KeepsOrder(loopItems', pending_files)
             /\ loopItems = <<>>
        /\ \A f \in DropNames :
              DropFile(f) /\ ObserverRunning =>
                 pending_files' = Append(pending_files, f)
        /\ LinkedInPoster_run_check =>
             /\ \A i \in 1..Len(loopItems'), j \in 1..Len(loopItems') :
                   i < j => loopItems'[i][2][2] < loopItems'[j][2][2]
             /\ loopItems = <<>>
        /\ GmailWatcher_run_check => loopItems = <<>>
        /\ (FileSystemWatcher_run_item \/ GmailWatcher_run_item
               \/ LinkedInPoster_run_item) =>
             /\ lastCall'[1] = Head(loopItems)
             /\ lastCall'[2] = "returned" => loopItems' = Tail(loopItems)
      ]_vars

\* The drop-folder loop detected a batch of two different files and has
\* materialized both, the second one last.
C19_Witness ==
    /\ variant = "drop_folder"
    /\ Len(lastRes["drop_folder"]) = 2
    /\ lastRes["drop_folder"][1] # lastRes["drop_folder"][2]
    /\ lastRes["drop_folder"][1] \in processed_files
    /\ lastCall = <<lastRes["drop_folder"][2], "returned">>
    /\ loopItems = <<>>

----------------------------------------------------------------------------
(* Claims about the status aggregator (checked under SpecStatus) *)

\* The number of entries of directory d whose name does not start with a dot.
NonHiddenEntries(v, d) == Cardinality({n \in DOMAIN v[d] : n[1] # ".gitkeep"})

\* C16: status freshness.  After a refresh the dashboard holds, for each
\* store directory (Needs_Action, Pending_Approval, Approved, Rejected,
\* Done), a count equal to the number of its non-hidden entries.
C16_StatusFreshness ==
    [][ update_dashboard =>
          \A d \in Dirs :
             /\ d \in DOMAIN dashboard'
             /\ dashboard'[d] = NonHiddenEntries(vault, d) ]_vars

\* The same for the store directories other than Rejected.
StatusFreshness_without_rejected ==
    [][ update_dashboard =>
          \A d \in Dirs \ {"Rejected"} :
             /\ d \in DOMAIN dashboard'
             /\ dashboard'[d] = NonHiddenEntries(vault, d) ]_vars

----------------------------------------------------------------------------
(* Claims about record creation (checked under SpecCreate) *)

\* C20: records are uniquely named and never destroyed by creation.  A step
\* that creates a record (send_email, or create_action_file of the
\* drop-folder or the inbox watcher) leaves every file that was in the vault
\* in its place with its content: it writes to a name that was free.
C20_CreationNeverOverwrites ==
    [][ (\/ call_tool_send_email
         \/ \E f \in DropNames : FileSystemWatcher_create_action_file(f)
         \/ \E m \in MsgIds : GmailWatcher_create_action_file(m)) =>
          \A d \in Dirs : \A n \in DOMAIN vault[d] :
             /\ n \in DOMAIN vault'[d]
             /\ vault'[d][n] = vault[d][n] ]_vars

\* C24, as stated: a dashboard refresh leaves every stage directory and the
\* audit log exactly as they were.
C24_RefreshOnlyWritesDashboard ==
    [][ update_dashboard => (vault' = vault /\ log' = log) ]_vars

\* C24, amended: a dashboard refresh leaves every stage directory exactly as
\* it was, rewrites Dashboard.md, and appends one dashboard_update entry to
\* the audit log, whose earlier entries it leaves as they were.
C24_RefreshWritesDashboardAndLog ==
    [][ update_dashboard =>
          /\ vault' = vault
          /\ log' = Append(log, OrchLogEntry("dashboard_update",
                                             "Dashboard.md refreshed", "success"))
          /\ dashboard' = DashboardOf(vault) ]_vars

\* The dashboard was refreshed over a store that holds a record.
C24_Witness ==
    /\ dashboard # NoDashboard
    /\ dashboard["Pending_Approval"] = 1
    /\ \E n \in LinkedInNames : Exists(vault, "Pending_Approval", n)
    /\ log # <<>>

\* The metadata records of Needs_Action written for the dropped file f.
FileRecordsFor(v, f) ==
    {n \in DOMAIN v["Needs_Action"] :
        /\ Len(n) = 3
        /\ n[1] = "FILE"
        /\ n[2] = f[1]
        /\ v["Needs_Action"][n].text = f[2]}

NoRepeats(q) == \A i, j \in DOMAIN q : i # j => q[i] # q[j]

\* C28: within one filesystem watcher instance each file name yields at most
\* one record, also when the same path was queued more than once before the
\* queue is drained: no check_for_updates result holds a file name twice.
C28_OneRecordPerName ==
    variant = "drop_folder" =>
       /\ NoRepeats(lastRes["drop_folder"])
       /\ \A f \in DropNames : Cardinality(FileRecordsFor(vault, f)) <= 1

\* The second half alone: at most one record per file name.
OneRecordPerName_records ==
    variant = "drop_folder" =>
       \A f \in DropNames : Cardinality(FileRecordsFor(vault, f)) <= 1

----------------------------------------------------------------------------
(* Specification of the supervised filesystem watcher: the WatcherThread    *)
(* runs FileSystemWatcher.run, the health monitor replaces a thread that    *)
(* has ended, and files come and go in Drop_Folder.                         *)

\* main has started the first WatcherThread; its FileSystemWatcher is not
\* constructed yet.
InitRestart ==
    /\ MainStarted
    /\ DetectFresh
    /\ variant = "drop_folder"
    /\ loopPc = "dead"
    /\ loopItems = <<>>
    /\ lastCall = <<>>
    /\ cycles = 0
    /\ exited = FALSE
    /\ instGen = 0
    /\ gmailConfig = RefreshableConfig
    /\ LogIdle

\* The file that comes and goes in Drop_Folder while the watcher is
\* supervised: one name, created, removed and created again.
RestartNames == {<<"a", ".txt">>}

NextRestart ==
    \/ \E f \in RestartNames : DropFile(f)
    \/ \E f \in RestartNames : RemoveDropped(f)
    \/ start_filesystem_watcher
    \/ FileSystemWatcher_run_check
    \/ FileSystemWatcher_run_item
    \/ run_sleep_over
    \/ WatcherThread_run_ends
    \/ HealthTick
    \/ Tick

SpecRestart == InitRestart /\ [][NextRestart]_vars

\* C26: dedup entries live only as long as the watcher instance.  A
\* filesystem watcher constructed in a restarted thread begins with an empty
\* processed set and an empty pending queue, and its check_for_updates
\* returns every queued name that is in Drop_Folder and that this instance
\* has not processed, whether or not an earlier instance wrote a record for
\* it; create_action_file then writes a record for it again.
C26_DedupDiesWithInstance ==
    [][ /\ start_filesystem_watcher =>
              (processed_files' = {} /\ pending_files' = <<>>)
        /\ FileSystemWatcher_run_check =>
              \A f \in Range(pending_files) :
                 (f \in dropFolder /\ f \notin processed_files)
                    => f \in Range(lastRes'["drop_folder"])
        /\ (FileSystemWatcher_run_item /\ lastCall'[2] = "returned") =>
              /\ FileSystemWatcher_meta_path(lastCall'[1], now)
                    \in FileRecordsFor(vault', lastCall'[1])
              /\ Len(log') = Len(log) + 1
      ]_vars

\* The second instance has materialized a file name that the first instance
\* had materialized already: Needs_Action holds two records for it.
C26_Witness ==
    /\ instGen = 2
    /\ \E f \in processed_files :
          /\ Cardinality(FileRecordsFor(vault, f)) = 2
          /\ lastCall = <<f, "returned">>

----------------------------------------------------------------------------
(* The supervised filesystem watcher under fair scheduling: the thread, the *)
(* loop and the health monitor each take their next step eventually, and    *)
(* no file is taken out of Drop_Folder.                                     *)

\* A cycle of the loop that is not counted: the loop runs for ever.
FileSystemWatcher_run_poll == FileSystemWatcher_poll /\ UNCHANGED cycles

NextRestartFair ==
    \/ \E f \in DropNames : DropFile(f)
    \/ start_filesystem_watcher
    \/ FileSystemWatcher_run_poll
    \/ FileSystemWatcher_run_item
    \/ run_sleep_over
    \/ WatcherThread_run_ends
    \/ HealthTick
    \/ Tick

SpecRestartFair ==
    /\ InitRestart
    /\ [][NextRestartFair]_vars
    /\ WF_vars(start_filesystem_watcher)
    /\ WF_vars(FileSystemWatcher_run_poll)
    /\ WF_vars(FileSystemWatcher_run_item)
    /\ WF_vars(run_sleep_over)
    /\ WF_vars(WatcherThread_run_ends)
    /\ WF_vars(HealthTick)

\* C29: no dropped file is lost.  Every file created in Drop_Folder (and
\* staying there) eventually has a record in Needs_Action.
C29_NoDroppedFileLost ==
    \A f \in DropNames :
       (f \in dropFolder) ~> (FileRecordsFor(vault, f) # {})

\* The same, for the behaviours in which the orchestrator never stops and
\* no watcher thread ever ends.
NoDroppedFileLost_without_failures ==
    ([](orch = "monitor" /\ ~fsException)) =>
       \A f \in DropNames :
          (f \in dropFolder) ~> (FileRecordsFor(vault, f) # {})

----------------------------------------------------------------------------
(* Specification of the inbox watcher's loop with create_action_file taken  *)
(* statement by statement.                                                  *)

InitMark ==
    /\ WorkflowIdle /\ OrchIdle /\ DetectFresh /\ RunIdle /\ StatusIdle
    /\ variant = "inbox"

NextMark ==
    \/ \E m \in MsgIds : MailArrives(m)
    \/ GmailFlips
    \/ GmailWatcher_run_check
    \/ GmailWatcher_create_begin
    \/ GmailWatcher_create_write
    \/ GmailWatcher_create_mark
    \/ GmailWatcher_create_add
    \/ GmailWatcher_create_return
    \/ run_sleep_over

SpecMark == InitMark /\ [][NextMark]_vars

\* C30: the inbox watcher marks a message read only after its record has
\* been written.  In every state a message without the UNREAD label has a
\* record in Needs_Action, and a message id joins processed_ids only after
\* _mark_as_read was called for it.
C30_MarkReadAfterRecord ==
    /\ [](\A m \in DOMAIN mailbox : ~mailbox[m] => EmailRecordsFor(m) # {})
    /\ [][ \A m \in processed_ids' \ processed_ids :
              lastCall = <<m, "mark_tried">> ]_vars

\* create_action_file is between its mark and its add: the message has lost
\* UNREAD, its record is written and its id is not yet in processed_ids.
C30_Witness ==
    /\ loopPc = "add"
    /\ \E m \in DOMAIN mailbox :
          /\ m = Head(loopItems)
          /\ ~mailbox[m]
          /\ m \notin processed_ids
          /\ EmailRecordsFor(m) # {}

----------------------------------------------------------------------------
(* Specification of the orchestrator with its Gmail job: the job's          *)
(* invocations run _run_gmail_watcher_once under one of the possible        *)
(* configurations of the token and credentials files.                       *)

InitConfig ==
    /\ MainStarted
    /\ DetectFresh
    /\ variant = "inbox"
    /\ LoopIdle
    /\ instGen = 1
    /\ gmailConfig \in GmailConfigs
    /\ LogIdle

NextConfig ==
    \/ \E m \in MsgIds : MailArrives(m)
    \/ \E j \in Jobs : JobStart(j)
    \/ \E j \in Jobs \ {"gmail_watcher"} : JobReturn(j)
    \/ GmailJobRun
    \/ FsLoopStep
    \/ \E e \in BOOLEAN : FsCrash(e)
    \/ HealthTick

SpecConfig == InitConfig /\ [][NextConfig]_vars

\* No usable credentials: there is no token to load or refresh, and the
\* client secrets file is missing or invalid.
CredentialsUnusable(cfg) ==
    /\ cfg.token \in {"none", "corrupt"}
    /\ cfg.credentials \in {"missing", "invalid"}

----------------------------------------------------------------------------
(* Specification of the audit log: the components call log_action           *)
(* concurrently while the clock runs.                                       *)

InitLog == Init

NextLog ==
    \/ \E c \in Loggers : log_action_today(c)
    \/ \E c \in Loggers : log_action_timestamp(c)
    \/ \E c \in Loggers : log_action_append(c)
    \/ LogTick

SpecLog == InitLog /\ [][NextLog]_vars

\* C22, as stated: down every daily log file the timestamps never decrease,
\* also when several components append concurrently.
C22_TimestampsNonDecreasing ==
    \A d \in Days : \A i, j \in DOMAIN logFiles[d] :
       i < j => logFiles[d][i].timestamp <= logFiles[d][j].timestamp

\* C22, amended: the append order of a daily log file is the causal order
\* of emission.  A log_action call puts its line after every line that was
\* in its file when the call began and changes no other line, and no line
\* that was there when the call began has a later timestamp than its own.
C22_AppendOrderIsCausalOrder ==
    [][ \A c \in Loggers :
          log_action_append(c) =>
             LET d == writers[c].today
                 e == WriterEntry(c, writers[c])
             IN /\ logFiles'[d] = Append(logFiles[d], e)
                /\ \A o \in Days \ {d} : logFiles'[o] = logFiles[o]
                /\ writers[c].seen <= Len(logFiles[d])
                /\ \A k \in 1..writers[c].seen :
                      logFiles[d][k].timestamp <= e.timestamp ]_vars

\* Two components appended to one file concurrently: the line written
\* second carries the earlier timestamp.
C22_Witness ==
    \E d \in Days : \E i, j \in DOMAIN logFiles[d] :
       /\ i < j
       /\ logFiles[d][i].actor # logFiles[d][j].actor
       /\ logFiles[d][i].timestamp > logFiles[d][j].timestamp

\* C23: log partitioning by UTC day.  Every entry is in the file named after
\* the UTC date of its own timestamp field.
C23_EntryInFileOfItsDay ==
    \A d \in Days : \A i \in DOMAIN logFiles[d] :
       UtcDate(logFiles[d][i].timestamp) = d

----------------------------------------------------------------------------
(* Specification of the approval queue: files of every kind are put into    *)
(* Approved by hand while the scheduled LinkedIn job runs its cycles.       *)

\* Names of the files put into Approved: LINKEDIN_*.md and another prefix.
ApprovedFileNames == LinkedInNames \cup {ApprovalFileId(0)}

\* What such a file may hold: the request templates, a post that is
\* already marked posted, and a post without a body section.
ApprovedTemplates ==
    PostTemplates \cup
       { Content("linkedin_post", "posted", "## post content", "hello", 0),
         Content("linkedin_post", "pending", "## notes", "hello", 0) }

\* A file is written into Approved by hand.
HumanPlaceApproved(n, c) ==
    /\ n \notin created
    /\ vault' = WriteFile(vault, "Approved", n, c)
    /\ created' = created \cup {n}
    /\ twice' = [twice EXCEPT !["approval_queue"] = "none"]
    /\ prevRes' = [prevRes EXCEPT !["approval_queue"] = <<>>]
    /\ UNCHANGED <<log, now, liPc, liItems, liSnapshot, postLog,
                   toolCalls, toolRet, sent>>
    /\ UNCHANGED <<pending_files, processed_files, dropFolder, mailbox,
                   processed_ids, gmailUp, lastRes>>
    /\ UNCHANGED <<orchVars, runVars>>
    /\ UNCHANGED variant

InitApproved == Init

NextApproved ==
    \/ \E n \in ApprovedFileNames, c \in ApprovedTemplates : HumanPlaceApproved(n, c)
    \/ Tick
    \/ run_linkedin_check_once_start
    \/ run_linkedin_check_once_item
    \/ run_linkedin_check_once_end

SpecApproved == InitApproved /\ [][NextApproved]_vars

\* The file n of Approved is one the poster is to act on.
ActionableApproved(v, n) ==
    /\ n[1] = "LINKEDIN"
    /\ v["Approved"][n].type = "linkedin_post"
    /\ v["Approved"][n].status # "posted"

\* Something was done for the file n in the step: a publish call, an audit
\* entry about it, or an archived copy of it in Done.
SideEffectFor(n) ==
    \/ \E i \in (Len(postLog) + 1)..Len(postLog') : postLog'[i].name = n
    \/ \E i \in (Len(log) + 1)..Len(log') :
          log'[i].actor = "LinkedInPoster" /\ log'[i].details[2] = n
    \/ \E d \in DOMAIN vault'["Done"] \ DOMAIN vault["Done"] :
          d[1] = n[1] /\ d[2] = n[2]

\* C31: the approval-queue watcher acts only on the files of Approved named
\* LINKEDIN_*.md with type linkedin_post and a status other than posted.
\* Every step of a cycle leaves every other file of Approved in place with
\* its content and has no side effect for it, and every publish call is made
\* for a file that is actionable.
C31_OnlyActionableFilesTouched ==
    [][ (run_linkedin_check_once_start \/ run_linkedin_check_once_item
            \/ run_linkedin_check_once_end) =>
          /\ \A n \in DOMAIN vault["Approved"] :
                ~ActionableApproved(vault, n) =>
                    /\ n \in DOMAIN vault'["Approved"]
                    /\ vault'["Approved"][n] = vault["Approved"][n]
                    /\ ~SideEffectFor(n)
          /\ \A i \in (Len(postLog) + 1)..Len(postLog') :
                /\ postLog'[i].name \in DOMAIN vault["Approved"]
                /\ ActionableApproved(vault, postLog'[i].name)
      ]_vars

\* A cycle that began with an actionable post, a post marked posted, and a
\* file of another prefix in Approved has published and archived the first;
\* the other two are still in Approved.
C31_Witness ==
    /\ liPc = "loop"
    /\ liItems = <<>>
    /\ \E a \in LinkedInNames, p \in LinkedInNames :
          /\ a # p
          /\ {a, p, ApprovalFileId(0)} \subseteq DOMAIN liSnapshot
          /\ liSnapshot[p].status = "posted"
          /\ liSnapshot[a].type = "linkedin_post"
          /\ liSnapshot[a].status # "posted"
          /\ ArchivedAs(vault, a, {"posted"})
          /\ {p, ApprovalFileId(0)} \subseteq DOMAIN vault["Approved"]
          /\ a \notin DOMAIN vault["Approved"]

\* The record has no post body: no section under one of the three body
\* headings, or nothing in it.
BodyEmptyOrMissing(c) ==
    \/ c.heading \notin {"## post content", "## content", "## post body"}
    \/ c.text = ""

\* The item the LinkedIn job is about to hand to create_action_file.
NextItemContent == vault[Head(liItems)[1]][Head(liItems)[2]]

\* No publish call is made for a record without a post body.
NoPublishWithoutBody ==
    [][ \A i \in (Len(postLog) + 1)..Len(postLog') :
           ~BodyEmptyOrMissing(vault[postLog'[i].dir][postLog'[i].name]) ]_vars

\* The item was moved from Approved into Done as skipped_empty_body.
SkippedToDone(item) ==
    /\ item[2] \notin DOMAIN vault'["Approved"]
    /\ ArchiveName(item[2], "skipped_empty_body", now) \in DOMAIN vault'["Done"]
    /\ vault'["Done"][ArchiveName(item[2], "skipped_empty_body", now)]
          = vault[item[1]][item[2]]

\* C33: an approved LinkedIn record whose post body section is empty or
\* missing is never published; on the cycle that picks it up it is moved from
\* Approved to Done with status skipped_empty_body, the publish effect is not
\* invoked, and the record does not stay in Approved.
C33_EmptyBodySkipped ==
    /\ NoPublishWithoutBody
    /\ [][ (run_linkedin_check_once_item /\ BodyEmptyOrMissing(NextItemContent)) =>
              /\ postLog' = postLog
              /\ SkippedToDone(Head(liItems))
         ]_vars

\* What the code keeps of it: such a record is never published, and on the
\* cycle that picks it up it is moved to Done with status skipped_empty_body
\* unless the move itself raises; then the vault is as it was, the record
\* still in Approved, and the invocation is over.
EmptyBodyNeverPublished_unless_move_raises ==
    /\ NoPublishWithoutBody
    /\ [][ (run_linkedin_check_once_item /\ BodyEmptyOrMissing(NextItemContent)) =>
              /\ postLog' = postLog
              /\ log' = log
              /\ \/ SkippedToDone(Head(liItems)) /\ liPc' = "loop"
                 \/ vault' = vault /\ liPc' = "idle"
         ]_vars

----------------------------------------------------------------------------
(* Specification of the two scheduled watcher jobs: invocations of          *)
(* _run_gmail_watcher_once and _run_linkedin_check_once, each of which may  *)
(* raise while the watcher is built, in check_for_updates or in             *)
(* create_action_file, with mail arriving and files put into Approved.      *)

\* _run_linkedin_check_once: LinkedInPoster(...) or check_for_updates raises
\* (mkdir, read_text); control passes to the except clause and nothing was
\* read or written.
run_linkedin_check_once_raises ==
    /\ liPc = "idle"
    /\ liPc' = "except"
    /\ UNCHANGED <<vault, log, now, liItems, liSnapshot, postLog,
                   created, toolCalls, toolRet, sent>>
    /\ UNCHANGED <<orchVars, detVars, runVars>>

\* _run_linkedin_check_once: `except Exception as exc: logger.error(...)`,
\* and the job function returns.
run_linkedin_check_once_except ==
    /\ liPc = "except"
    /\ liPc' = "idle"
    /\ UNCHANGED <<vault, log, now, liItems, liSnapshot, postLog,
                   created, toolCalls, toolRet, sent>>
    /\ UNCHANGED <<orchVars, detVars, runVars>>

InitJobs ==
    /\ MainStarted
    /\ DetectFresh
    /\ variant = "inbox"
    /\ RunIdle

NextJobs ==
    \/ \E m \in MsgIds : MailArrives(m)
    \/ \E n \in LinkedInNames, c \in PostTemplates : HumanPlaceApproved(n, c)
    \/ JobStart("gmail_watcher")
    \/ GmailJobRun
    \/ run_linkedin_check_once_start
    \/ run_linkedin_check_once_raises
    \/ run_linkedin_check_once_except
    \/ run_linkedin_check_once_item
    \/ run_linkedin_check_once_end

SpecJobs == InitJobs /\ [][NextJobs]_vars

\* C32: an exception raised inside a scheduled Gmail or LinkedIn cycle never
\* escapes the job function.  However an invocation ends, the orchestrator
\* still runs and the invocation is over; the unread messages the Gmail job
\* did not materialize are still unread, the LinkedIn files of a batch cut
\* short by an exception are still detected by check_for_updates, and the job
\* can be started again.
C32_JobExceptionsContained ==
    /\ [][ GmailJobRun =>
              /\ orch' = "monitor"
              /\ inflight'["gmail_watcher"] = inflight["gmail_watcher"] - 1
              /\ \A m \in DOMAIN mailbox :
                    (mailbox[m] /\ m \notin Range(lastCall'[1])) => mailbox'[m]
         ]_vars
    /\ [][ (run_linkedin_check_once_raises \/ run_linkedin_check_once_except) =>
              /\ orch' = "monitor"
              /\ liPc' \in {"except", "idle"}
              /\ LinkedInPoster_check_for_updates(vault')
                    = LinkedInPoster_check_for_updates(vault)
         ]_vars
    /\ [][ (run_linkedin_check_once_item /\ liPc' = "idle") =>
              /\ orch' = "monitor"
              /\ \A i \in DOMAIN liItems :
                    liItems[i] \in Range(LinkedInPoster_check_for_updates(vault'))
         ]_vars
    /\ [](orch = "monitor")
    /\ []((inflight["gmail_watcher"] = 0) => ENABLED JobStart("gmail_watcher"))
    /\ []((liPc = "except") => ENABLED run_linkedin_check_once_except)
    /\ []((liPc = "idle") => ENABLED run_linkedin_check_once_start)

\* A Gmail invocation that materialized one message is over with another
\* message still unread and without a record, and a LinkedIn invocation was
\* ended by an exception of the publish call with two actionable files in
\* Approved, the one it was publishing among them.
C32_Witness ==
    /\ inflight["gmail_watcher"] = 0
    /\ lastCall = << <<1>>, "job" >>
    /\ 2 \in DOMAIN mailbox
    /\ mailbox[2]
    /\ EmailRecordsFor(2) = {}
    /\ liPc = "idle"
    /\ postLog # <<>>
    /\ postLog[Len(postLog)].outcome = "launch_raised"
    /\ <<"Approved", postLog[Len(postLog)].name>>
          \in Range(LinkedInPoster_check_for_updates(vault))
    /\ Len(LinkedInPoster_check_for_updates(vault)) = 2

----------------------------------------------------------------------------
(* Specification of a standalone watcher stopped by the user: the run loop  *)
(* of one watcher variant, and a KeyboardInterrupt that may arrive at any   *)
(* point of a cycle.                                                        *)

\* self.__class__.__name__ of the watcher variant.
WatcherClass(w) ==
    CASE w = "drop_folder" -> "FileSystemWatcher"
      [] w = "inbox" -> "GmailWatcher"
      [] OTHER -> "LinkedInPoster"

\* Whether the statement the loop is at lies inside the try whose
\* `except KeyboardInterrupt` logs watcher_stop.  FileSystemWatcher.run wraps
\* the whole `while True` loop, time.sleep included; BaseWatcher.run wraps
\* check_for_updates and the batch only, and calls time.sleep after the
\* try statement.
InterruptCaught(w, pc) ==
    IF w = "drop_folder" THEN TRUE ELSE pc \in {"check", "batch"}

\* log_action("watcher_stop", "Stopped by user")
WatcherStopEntry(actor) ==
    LogEntry(now, "watcher_stop", actor, "Stopped by user", "success")

\* The user presses Ctrl+C: KeyboardInterrupt is raised at the statement the
\* loop is executing.  Inside the try the handler logs watcher_stop and the
\* loop is left; outside it the exception leaves run unhandled.
run_KeyboardInterrupt ==
    /\ loopPc \in {"check", "batch", "sleep"}
    /\ loopPc' = "stopped"
    /\ loopItems' = <<>>
    /\ log' = IF InterruptCaught(variant, loopPc)
              THEN Append(log, WatcherStopEntry(WatcherClass(variant)))
              ELSE log
    /\ UNCHANGED <<lastCall, cycles, exited, dashboard, auxVars>>
    /\ UNCHANGED <<vault, now, liPc, liItems, liSnapshot, postLog, created,
                   toolCalls, toolRet, sent>>
    /\ UNCHANGED <<orchVars, detVars>>

InitStop == InitRun

NextStop ==
    \/ \E f \in DropNames : DropFile(f)
    \/ FileSystemWatcher_run_check
    \/ FileSystemWatcher_run_item
    \/ \E m \in MsgIds : MailArrives(m)
    \/ GmailWatcher_run_check
    \/ GmailWatcher_run_item
    \/ \E n \in LinkedInNames, c \in PostTemplates :
          variant = "approval_queue" /\ HumanPlaceApproved(n, c)
    \/ LinkedInPoster_run_check
    \/ LinkedInPoster_run_item
    \/ run_sleep_over
    \/ run_KeyboardInterrupt

SpecStop == InitStop /\ [][NextStop]_vars

\* The loop has been left and the last entry of the audit log is the
\* watcher_stop of this watcher.
StoppedWithEntry ==
    /\ loopPc' = "stopped"
    /\ Len(log') = Len(log) + 1
    /\ log'[Len(log')].action_type = "watcher_stop"
    /\ log'[Len(log')].actor = WatcherClass(variant)

\* C34: whenever a standalone run loop is stopped by a user interrupt, a
\* watcher_stop entry is appended before the loop exits, whether the
\* interrupt arrives during detect, during materialize or during the sleep
\* between cycles, for BaseWatcher.run and for FileSystemWatcher.run.
C34_InterruptLogsWatcherStop ==
    [][ run_KeyboardInterrupt => StoppedWithEntry ]_vars

\* The same for the interrupts that arrive inside the try statement: at any
\* point of FileSystemWatcher.run's loop, and during detect or materialize
\* in BaseWatcher.run.
InterruptLogsWatcherStop_inside_try ==
    [][ (run_KeyboardInterrupt /\ (variant = "drop_folder" \/ loopPc # "sleep"))
           => StoppedWithEntry ]_vars

====
